---- MODULE Spec2Model ----
(***************************************************************************)
(* Verification model of the Certabo chessboard core (Release 3.5):        *)
(*   - LedManager and the serial transport worker _usbtool                 *)
(*     (src/utils_shared.py),                                              *)
(*   - the gesture protocol PicoChess and the main loop that polls it      *)
(*     (src/utils.py, src/run.py),                                         *)
(*   - move inference get_moves (src/utils.py),                            *)
(*   - the sensor decoder UsbReader (src/utils_shared.py).                 *)
(* Each component has its own specification over the shared variables;     *)
(* a specification leaves the other components' variables unchanged.       *)
(***************************************************************************)
EXTENDS Integers, Sequences, FiniteSets, TLC

VARIABLES
    \* ---- clocks ----
    now,                        \* milliseconds since the process started
    \* ---- LedManager ----
    last_message,               \* LedManager.last_message
    last_flash_message,         \* LedManager.last_flash_message
    flash_clock,                \* LedManager.flash_clock
    counter,                    \* LedManager.counter
    queue_to_usbtool,           \* QUEUE_TO_USBTOOL, oldest first
    \* ---- _usbtool (transport worker) ----
    upc,                        \* position of the worker in its loop
    first_connection,
    serial_ok,
    time_last_message_to_board,
    message_to_board,           \* deque(maxlen=1)
    port_found,                 \* find_port() ran since the last failure
    dev_ok,                     \* environment: the device can be opened and written
    sent,                       \* history: the successful writes, oldest first
    wake_at,                    \* end of the worker's time.sleep(1) after a failed open
    fixed_port,                 \* cfg.args.port is not None
    dev_in,                     \* environment: lines waiting in the serial input buffer
    faults,                     \* history: number of changes of dev_ok
    handle_ok,                  \* environment: the open serial_port handle still works
    lines_read,                 \* history: the lines the worker read up to their newline
    last_failure,               \* history: the failure since the last successful open
    last_open,                  \* history: the last call of serial.Serial by the worker
    \* ---- UsbReader (sensor decoder) ----
    queue_from_usbtool,         \* QUEUE_FROM_USBTOOL, oldest first
    data_history,               \* UsbReader.data_history: the ring of three slots
    data_history_i,             \* UsbReader.data_history_i
    board_fen,                  \* UsbReader.board_fen, as its sequence of characters
    code_mapping,               \* UsbReader.code_mapping
    default_missing_piece,      \* UsbReader.default_missing_piece
    calibration_file,           \* the calibration file's content
    needs_calibration,          \* UsbReader.needs_calibration
    received,                   \* history: the frames update() took from the queue
    voted,                      \* history: the last vote: its ring, marker and 64 symbols
    \* ---- get_moves (move inference) ----
    engine,                     \* the rule engine: legal moves and board fields
    board,                      \* the logical board passed in: its move stack
    fen,                        \* the physical FEN passed in, split at white space
    gm_pc,                      \* position in get_moves
    copy_board,                 \* copy_board: its move stack
    moves,                      \* moves
    legal_moves2,               \* legal_moves2
    move_i,                     \* position of the loop over moves
    move2_i,                    \* position of the loop over legal_moves2
    gm_result,                  \* what get_moves returned or raised
    board_before,               \* history: the logical board when get_moves was called
    n_generated,                \* history: calls of generate_legal_moves
    n_pushed,                   \* history: calls of push
    \* ---- PicoChess (the gesture decoder) and the main loop that polls it ----
    on,                         \* PicoChess.on
    last_command_time,          \* PicoChess.last_command_time
    last_exit_command_time,     \* PicoChess.last_exit_command_time
    exit_command,               \* PicoChess.exit_command
    start_game,                 \* PicoChess.start_game
    can_calibrate,              \* PicoChess.can_calibrate
    window,                     \* run.py: window
    game_settings,              \* run.py: game_settings
    calibration,                \* run.py: calibration
    loop_pc,                    \* run.py: position in the main loop, or in a loop
                                \* that waits for the engine ("thinking")
    powered_off,                \* run.py: do_poweroff was called
    physical_board,             \* what usb_reader.read_board() returns now
    shows,                      \* history: number of changes of the physical board
    last_commit,                \* history: the last gesture command committed
    prev_commit,                \* history: the gesture command committed before it
    gesture_log,                \* history: the start, hint and calibrate gestures
    last_poll,                  \* history: the last call of check_exit
    countdown,                  \* history: per exit type, the countdown in progress
    \* ---- calibration (UsbReader and the home window of the main loop) ----
    calibration_samples,        \* UsbReader.calibration_samples: deque(maxlen=15)
    calibration_data_history_i, \* UsbReader.calibration_data_history_i
    calibration_mapping,        \* UsbReader.calibration_mapping
    new_setup,                  \* run.py: new_setup
    cal_pc,                     \* the program: running, inside pickle.dump, crashed, failed
    device_frame,               \* environment: the frame the sensors report now
    frame_changes,              \* history: number of changes of device_frame
    file_before,                \* history: the calibration file when the last pass began
    cal_call,                   \* history: the last call of UsbReader.calibration
    started,                    \* history: the last start of the program
    passes,                     \* history: number of calibration passes begun
    crashes,                    \* history: number of crashes
    \* ---- calls of LedManager.set_leds ----
    led_call,                   \* history: the last call of set_leds
    \* ---- the game loop of run.py ----
    game                        \* the globals of the game loop, and the last take-back

ledVars == <<last_message, last_flash_message, flash_clock, counter,
             queue_to_usbtool>>
usbVars == <<upc, first_connection, serial_ok, time_last_message_to_board,
             message_to_board, port_found, dev_ok, sent,
             wake_at, fixed_port, dev_in, faults, handle_ok, lines_read,
             last_failure, last_open>>
decVars == <<queue_from_usbtool, data_history, data_history_i, board_fen, code_mapping,
             default_missing_piece, calibration_file, needs_calibration, received, voted>>
gmVars == <<engine, board, fen, gm_pc, copy_board, moves, legal_moves2, move_i, move2_i,
            gm_result, board_before, n_generated, n_pushed>>
picoVars == <<on, last_command_time, last_exit_command_time, exit_command, start_game,
              can_calibrate, window, game_settings, calibration, loop_pc,
              powered_off, physical_board, shows, last_commit, prev_commit, gesture_log, last_poll,
              countdown>>
calVars == <<calibration_samples, calibration_data_history_i, calibration_mapping,
             new_setup, cal_pc, device_frame, frame_changes, file_before, cal_call,
             started, passes, crashes>>
auxVars == <<calVars, led_call, game>>
vars == <<now, ledVars, usbVars, decVars, gmVars, picoVars, auxVars>>

(***************************************************************************)
(* Bounds of the model                                                     *)
(***************************************************************************)
MaxCmds == 2          \* commands the core lets wait on QUEUE_TO_USBTOOL
MaxTicksT == 4        \* clock steps explored by the transport specification
TickT == 250          \* milliseconds per clock step of the transport specification
Epoch == 5000         \* time.time() (in ms) at the start of the process
MaxFaults == 1        \* changes of the device's availability explored
MaxPending == 1       \* lines the device may hold ready in the serial input buffer
MaxFrames == 1        \* frames the transport specification lets wait on QUEUE_FROM_USBTOOL
MaxCode == 2          \* cell codes CodeOf(0..MaxCode) the sensors may report
MaxMoves == 2         \* legal moves the explored rule engines give a position
MaxWaiting == 0       \* commands on QUEUE_TO_USBTOOL at which the main loop still runs
MaxShows == 2         \* changes of the physical board in the gesture specification
MaxTicksP == 4        \* clock steps explored by the gesture specification
MaxTicksE == 5        \* clock steps explored by the exit specification
TickP == 1000         \* milliseconds per clock step of the gesture and exit specifications
MaxRecv == 4          \* frames delivered in the decoder specification
MaxTicksF == 7        \* clock steps explored by the flash specification
TickF == 500          \* milliseconds per clock step of the flash specification
MaxShowsS == 2                   \* changes of the physical board in the start gesture specification
MaxTicksS == 24                  \* the last clock step of the start gesture specification
QuietFromS == 4                  \* the clock steps between these two are passed over in
QuietUntilS == 19                \* one step, the windows not being polled in between
MaxShowsH == 3                   \* changes of the physical board in the hint and calibrate specification
MaxShowsD == 1                   \* changes of the physical board in the difficulty specification
MaxShowsC == 3                   \* changes of the physical board in the calibrate gesture specification
MaxTicksC == 4                   \* clock steps explored by the calibrate gesture specification
MaxTicksH == 5                   \* clock steps explored by the hint and calibrate specification
MaxTries == 5                    \* failed inferences in a row that are followed
MaxTicksR == 2        \* clock steps explored by the reconnect specification
TickR == 1000         \* milliseconds per clock step of the reconnect specification
MaxLines == 3         \* lines the device sends in the line specification
MaxExtraTokens == 1   \* tokens a line may have beyond frame_tokens

(***************************************************************************)
(* Program constants                                                       *)
(***************************************************************************)
flash_frequency == 1000   \* LedManager.flash_frequency (1 second), in ms
buffer_ms == 750          \* _usbtool's buffer_ms
reconnect_sleep == 1000   \* time.sleep(1) after a failed (re)connect, in ms
frame_tokens == 320       \* tokens of a sensor line (64 cells of 5)
data_history_depth == 3   \* UsbReader.data_history_depth
wait_between_commands == 3000   \* PicoChess.wait_between_commands, in ms

(***************************************************************************)
(* Small helpers                                                           *)
(***************************************************************************)
Range(s) == {s[i] : i \in 1..Len(s)}

IndexOf(s, x) == (CHOOSE i \in 1..Len(s) : s[i] = x) - 1

\* time.time(), in milliseconds
TimeTime == Epoch + now

(***************************************************************************)
(* LedManager                                                              *)
(***************************************************************************)
COLUMNS_LETTERS == <<"a", "b", "c", "d", "e", "f", "g", "h">>
COLUMNS_LETTERS_REVERSED == <<"h", "g", "f", "e", "d", "c", "b", "a">>
Digits == <<"0", "1", "2", "3", "4", "5", "6", "7", "8", "9">>

\* int(c) for a one-character string
IntOf(c) == IndexOf(Digits, c)

Pow2(n) == IF n = 0 THEN 1 ELSE IF n = 1 THEN 2 ELSE IF n = 2 THEN 4
           ELSE IF n = 3 THEN 8 ELSE IF n = 4 THEN 16 ELSE IF n = 5 THEN 32
           ELSE IF n = 6 THEN 64 ELSE 128

\* A LED request: Python's None, a str, or a list of squares. A square is the
\* pair of its two characters. A str that is not the name of a pattern is a
\* square or a move string: squares holds squares[0:2] and, for a move,
\* squares[2:4].
NoMsg == [kind |-> "None", text |-> "", squares |-> <<>>]
Str(s) == [kind |-> "str", text |-> s, squares |-> <<>>]
Sqs(q) == [kind |-> "list", text |-> "", squares |-> q]
SquareStr(q) == [kind |-> "str", text |-> "square", squares |-> q]

\* _square2certabo, with the variant that takes no notice of rotate180
square2certabo_unrotated(square, rotate180) ==
    <<8 - IntOf(square[2]), Pow2(IndexOf(COLUMNS_LETTERS, square[1]))>>

\* _square2certabo: <<row, column bit>> of a square
square2certabo(square, rotate180) ==
    LET col == IF rotate180 THEN IndexOf(COLUMNS_LETTERS_REVERSED, square[1])
                            ELSE IndexOf(COLUMNS_LETTERS, square[1])
        row == IF rotate180 THEN 9 - IntOf(square[2]) ELSE IntOf(square[2])
    IN  <<8 - row, Pow2(col)>>

RECURSIVE SetSum(_)
SetSum(S) == IF S = {} THEN 0
             ELSE LET x == CHOOSE y \in S : TRUE IN x[2] + SetSum(S \ {x})

\* squares2led for a list of squares: a one-item list is taken as it is, any
\* other list goes through set(squares); leds[row] += col for each position.
squares2led(squares, rotate180) ==
    LET distinct == Range(squares)
        rowsum(r) == SetSum({<<sq, square2certabo(sq, rotate180)[2]>> :
                             sq \in {q \in distinct :
                                     square2certabo(q, rotate180)[1] = r}})
    IN  [i \in 1..8 |-> rowsum(i - 1)]

\* squares2led for a str: one square (len < 4) or the two squares of a move,
\* each a position of its own; leds[row] += col for each position.
squares2led_str(squares, rotate180) ==
    [i \in 1..8 |->
        SetSum({<<k, square2certabo(squares[k], rotate180)[2]>> :
                k \in {h \in 1..Len(squares) :
                         square2certabo(squares[h], rotate180)[1] = i - 1}})]

\* LedManager.default_messages
HasDefault(text) == text \in {"all", "none", "start", "error", "corners", "thinking", "setup"}
default_messages(text) ==
    CASE text = "all" -> <<255, 255, 255, 255, 255, 255, 255, 255>>
      [] text = "none" -> <<0, 0, 0, 0, 0, 0, 0, 0>>
      [] text = "start" -> <<255, 255, 0, 0, 0, 0, 255, 255>>
      [] text = "error" -> <<0, 0, 0, 24, 24, 0, 0, 0>>
      [] text = "corners" ->
            squares2led(<<<<"a", "1">>, <<"a", "8">>, <<"h", "1">>, <<"h", "8">>>>, FALSE)
      [] text = "thinking" ->
            squares2led(<<<<"d", "4">>, <<"e", "4">>, <<"d", "5">>, <<"e", "5">>>>, FALSE)
      [] text = "setup" -> <<255, 255, 8, 0, 0, 8, 255, 255>>

\* The bytes set_leds puts on the queue for a request
LedBytes(message, rotate180) ==
    IF message.kind = "str" /\ HasDefault(message.text)
    THEN default_messages(message.text)
    ELSE IF message.kind = "str"
    THEN squares2led_str(message.squares, rotate180)
    ELSE squares2led(message.squares, rotate180)

\* The LedManager's fields and its queue, as one value
LedState == [last_message |-> last_message,
             last_flash_message |-> last_flash_message,
             flash_clock |-> flash_clock,
             counter |-> counter,
             queue |-> queue_to_usbtool]

\* LedManager.set_leds, with the variant that does not compare the request with
\* last_message
set_leds_always(L, message, rotate180) ==
    [L EXCEPT !.last_message = message,
              !.queue = Append(@, LedBytes(message, rotate180))]

\* LedManager.set_leds
set_leds(L, message, rotate180) ==
    IF message # L.last_message
    THEN [L EXCEPT !.last_message = message,
                   !.queue = Append(@, LedBytes(message, rotate180))]
    ELSE L

\* LedManager.flash_leds, with the variant that does not wait for the interval
flash_leds_no_wait(L, message, rotate180, t) ==
    IF L.last_flash_message # message
    THEN set_leds([L EXCEPT !.last_flash_message = message,
                            !.flash_clock = t,
                            !.counter = 0],
                  message, FALSE)
    ELSE LET n == L.counter + 1
             m == IF n % 2 = 0 THEN L.last_flash_message ELSE Str("none")
         IN  set_leds([L EXCEPT !.flash_clock = t, !.counter = n], m, rotate180)

\* LedManager.flash_leds, with the variant that keeps the phase of the flash
\* target before
flash_leds_keeps_phase(L, message, rotate180, t) ==
    IF t - L.flash_clock > flash_frequency \/ L.last_flash_message # message
    THEN LET n == L.counter + 1
             m == IF n % 2 = 0 THEN message ELSE Str("none")
         IN  set_leds([L EXCEPT !.last_flash_message = message,
                                !.flash_clock = t, !.counter = n], m, rotate180)
    ELSE L

\* LedManager.flash_leds at time.time() = t
flash_leds(L, message, rotate180, t) ==
    IF L.last_flash_message # message
    THEN set_leds([L EXCEPT !.last_flash_message = message,
                            !.flash_clock = t,
                            !.counter = 0],
                  message, FALSE)
    ELSE IF t - L.flash_clock > flash_frequency
         THEN LET n == L.counter + 1
                  m == IF n % 2 = 0 THEN L.last_flash_message ELSE Str("none")
              IN  set_leds([L EXCEPT !.flash_clock = t, !.counter = n], m, rotate180)
         ELSE L

\* The LedManager's variables take the values of L
LedBecomes(L) ==
    /\ last_message' = L.last_message
    /\ last_flash_message' = L.last_flash_message
    /\ flash_clock' = L.flash_clock
    /\ counter' = L.counter
    /\ queue_to_usbtool' = L.queue

LedInit ==
    /\ last_message = NoMsg
    /\ last_flash_message = NoMsg
    /\ flash_clock = 0
    /\ counter = 0
    /\ queue_to_usbtool = <<>>

(***************************************************************************)
(* Sensor frames                                                           *)
(***************************************************************************)
Cells == 0..63

\* A cell code: five tokens
CodeOf(k) == <<k, 0, 0, 0, k>>
ZeroCode == CodeOf(0)
Codes == {CodeOf(k) : k \in 0..MaxCode}

\* A frame: the code of each of the 64 cells. The explored frames differ from an
\* empty board on cell 0 (a8), cell 9 (b7) and cell 63 (h1).
FrameOf(k) == [c \in Cells |-> IF c = 0 THEN CodeOf(k)
                               ELSE IF c = 9 THEN CodeOf(MaxCode - k)
                               ELSE IF c = 63 THEN CodeOf((k + 1) % (MaxCode + 1))
                               ELSE ZeroCode]
Frames == {FrameOf(k) : k \in 0..MaxCode}
EmptyFrame == [c \in Cells |-> ZeroCode]

(***************************************************************************)
(* UsbReader: the sensor decoder                                           *)
(***************************************************************************)
code_mapping_order == <<"p", "r", "n", "b", "k", "q", "P", "R", "N", "B", "K", "Q">>

Min(a, b) == IF a < b THEN a ELSE b
MaxOf(S) == CHOOSE x \in S : \A y \in S : y <= x

\* Python's None in a ring slot
None == <<>>

\* Python's None where the model holds a number
NoneInt == -1000

\* The calibration file: absent, or the pickled list of code lists (one per kind);
\* torn: opened for writing and not written to its end, pickle.load cannot read it
NoFile == [exists |-> FALSE, data |-> <<>>, torn |-> FALSE]
FileOf(data) == [exists |-> TRUE, data |-> data, torn |-> FALSE]
TornFile == [exists |-> TRUE, data |-> <<>>, torn |-> TRUE]

\* load_piece_codes: the file it leaves behind (an empty dict is written when
\* there is none)
load_file(file) == IF file.exists THEN file ELSE FileOf(<<>>)

\* load_piece_codes: mapping[key] = letter for each code of each kind, in the
\* order of the file (a later assignment of the same key replaces an earlier one),
\* then the zero code
load_mapping(file) ==
    LET data == load_file(file).data
        n == Min(Len(data), Len(code_mapping_order))
        keys == UNION {Range(data[j]) : j \in 1..n}
    IN  [c \in keys \cup {ZeroCode} |->
            IF c = ZeroCode THEN "."
            ELSE code_mapping_order[MaxOf({j \in 1..n : c \in Range(data[j])})]]

\* load_piece_codes as a whole: pickle.load raises on a torn file
load_piece_codes(file) ==
    [raised |-> file.torn,
     file |-> load_file(file),
     needs_calibration |-> ~file.exists,
     mapping |-> IF file.torn THEN <<>> ELSE load_mapping(file)]

\* code_mapping.get(code, default_missing_piece)
MapGet(mapping, code, default) ==
    IF code \in DOMAIN mapping THEN mapping[code] ELSE default

\* Counter.update(sample); Counter.most_common(1)[0][0], with the variant that
\* takes the first slot's symbol
most_common_first_slot(sample) == sample[1]

\* Counter.update(sample); Counter.most_common(1)[0][0]: the symbol with the
\* highest count, the one met first among equals
most_common(sample) ==
    LET count(x) == Cardinality({i \in 1..Len(sample) : sample[i] = x})
        best == MaxOf({count(sample[i]) : i \in 1..Len(sample)})
        first == CHOOSE i \in 1..Len(sample) :
                    /\ count(sample[i]) = best
                    /\ \A j \in 1..(i - 1) : count(sample[j]) # best
    IN  sample[first]

\* the generator of data_to_fen: each slot's symbol for one cell
RECURSIVE cell_sample(_, _, _, _)
cell_sample(history, cell, mapping, default) ==
    IF history = <<>> THEN <<>>
    ELSE <<MapGet(mapping, Head(history)[cell], default)>>
         \o cell_sample(Tail(history), cell, mapping, default)

\* data_to_fen, first half: the voted symbol of each cell
vote_board(history, mapping, default) ==
    [cell \in Cells |-> most_common(cell_sample(history, cell, mapping, default))]

\* str(empty) for a run of 1..8 empty squares
DigitChar(n) == Digits[n + 1]

\* data_to_fen, second half: one rank, from column col on, with the variant
\* that does not reset the count of empty squares after a piece
RECURSIVE fen_row_keeps_empty(_, _, _, _)
fen_row_keeps_empty(pieces, row, col, empty) ==
    IF col = 8
    THEN IF empty > 0 THEN <<DigitChar(empty)>> ELSE <<>>
    ELSE LET piece == pieces[row * 8 + col]
         IN  IF piece = "."
             THEN fen_row_keeps_empty(pieces, row, col + 1, empty + 1)
             ELSE (IF empty > 0 THEN <<DigitChar(empty)>> ELSE <<>>)
                  \o <<piece>> \o fen_row_keeps_empty(pieces, row, col + 1, empty)

\* data_to_fen, second half: one rank, from column col on
RECURSIVE fen_row(_, _, _, _)
fen_row(pieces, row, col, empty) ==
    IF col = 8
    THEN IF empty > 0 THEN <<DigitChar(empty)>> ELSE <<>>
    ELSE LET piece == pieces[row * 8 + col]
         IN  IF piece = "."
             THEN fen_row(pieces, row, col + 1, empty + 1)
             ELSE (IF empty > 0 THEN <<DigitChar(empty)>> ELSE <<>>)
                  \o <<piece>> \o fen_row(pieces, row, col + 1, 0)

RECURSIVE fen_rows(_, _)
fen_rows(pieces, row) ==
    IF row = 8 THEN <<>>
    ELSE fen_row(pieces, row, 0, 0)
         \o (IF row < 7 THEN <<"/">> ELSE <<>>)
         \o fen_rows(pieces, row + 1)

\* data_to_fen
data_to_fen(history, mapping, default) == fen_rows(vote_board(history, mapping, default), 0)

\* data_history[data_history_i], as a position 1..3 of the ring
Slot(i) == (IF i < 0 THEN i + data_history_depth ELSE i) + 1

\* UsbReader.update, the loop over the queue, with the variant that keeps the
\* position when the frame equals the slot's
RECURSIVE update_loop_skip_equal(_, _)
update_loop_skip_equal(U, q) ==
    IF q = <<>> THEN U
    ELSE LET data == Head(q)
             same == U.history[Slot(U.i)] = data
             i2 == IF same THEN U.i ELSE U.i + 1
         IN  update_loop_skip_equal(
                 [history |-> IF same THEN U.history
                              ELSE [U.history EXCEPT ![Slot(U.i)] = data],
                  i |-> IF i2 >= data_history_depth THEN 0 ELSE i2,
                  changed |-> U.changed \/ ~same],
                 Tail(q))

\* UsbReader.update, the loop over the queue: U is the ring, the position and
\* the changed flag; q the frames waiting
RECURSIVE update_loop(_, _)
update_loop(U, q) ==
    IF q = <<>> THEN U
    ELSE LET data == Head(q)
             same == U.history[Slot(U.i)] = data
             i2 == U.i + 1
         IN  update_loop(
                 [history |-> IF same THEN U.history
                              ELSE [U.history EXCEPT ![Slot(U.i)] = data],
                  i |-> IF i2 >= data_history_depth THEN 0 ELSE i2,
                  changed |-> U.changed \/ ~same],
                 Tail(q))

\* UsbReader.__init__: the board part of chess.STARTING_FEN
start_board_fen == <<"r", "n", "b", "q", "k", "b", "n", "r", "/",
                     "p", "p", "p", "p", "p", "p", "p", "p", "/",
                     "8", "/", "8", "/", "8", "/", "8", "/",
                     "P", "P", "P", "P", "P", "P", "P", "P", "/",
                     "R", "N", "B", "Q", "K", "B", "N", "R">>

\* UsbReader.__init__, then ignore_missing: default_missing_piece is `missing`
DecInitWith(missing) ==
    /\ queue_from_usbtool = <<>>
    /\ data_history = <<None, None, None>>
    /\ data_history_i = -data_history_depth
    /\ board_fen = start_board_fen
    /\ default_missing_piece = missing
    /\ received = <<>>
    /\ voted = [done |-> FALSE, history |-> <<>>, mapping |-> <<>>, default |-> ".",
                board |-> <<>>]

DecInit == DecInitWith(".")

\* UsbReader.__init__ with the calibration file as it is found
DecLoad(file) ==
    /\ needs_calibration = ~file.exists
    /\ calibration_file = load_file(file)
    /\ code_mapping = load_mapping(file)

\* UsbReader.update (read_board calls it)
UsbReaderUpdate ==
    LET U == update_loop([history |-> data_history, i |-> data_history_i,
                          changed |-> FALSE], queue_from_usbtool)
        recompute == U.changed /\ U.i >= 0
        new_board == vote_board(U.history, code_mapping, default_missing_piece)
    IN  /\ data_history' = U.history
        /\ data_history_i' = U.i
        /\ queue_from_usbtool' = <<>>
        /\ received' = received \o queue_from_usbtool
        /\ voted' = IF recompute
                    THEN [done |-> TRUE, history |-> U.history, mapping |-> code_mapping,
                          default |-> default_missing_piece, board |-> new_board]
                    ELSE voted
        /\ board_fen' = IF recompute THEN fen_rows(voted'.board, 0) ELSE board_fen
        /\ UNCHANGED <<code_mapping, default_missing_piece, calibration_file,
                       needs_calibration>>

\* UsbReader.ignore_missing
IgnoreMissing ==
    /\ \E ignore_missing_pieces \in BOOLEAN :
          default_missing_piece' = IF ignore_missing_pieces THEN "N" ELSE "."
    /\ UNCHANGED <<queue_from_usbtool, data_history, data_history_i, board_fen,
                   code_mapping, calibration_file, needs_calibration, received, voted>>

\* _usbtool puts a frame on QUEUE_FROM_USBTOOL
FrameArrives ==
    /\ Len(received) + Len(queue_from_usbtool) < MaxRecv
    /\ \E f \in Frames : queue_from_usbtool' = Append(queue_from_usbtool, f)
    /\ UNCHANGED <<data_history, data_history_i, board_fen, code_mapping,
                   default_missing_piece, calibration_file, needs_calibration,
                   received, voted>>

\* The calibration files the decoder specification starts from
\* a calibration file with p: code 1, P: code 2
LearnedFile ==
    FileOf(<<<<CodeOf(1)>>, <<>>, <<>>, <<>>, <<>>, <<>>, <<CodeOf(2)>>,
             <<>>, <<>>, <<>>, <<>>, <<>>>>)

CalibrationFiles ==
    { NoFile,
      LearnedFile,
      \* q: code 1 (code 2 not learned)
      FileOf(<<<<>>, <<>>, <<>>, <<>>, <<>>, <<CodeOf(1)>>, <<>>,
               <<>>, <<>>, <<>>, <<>>, <<>>>>) }

(***************************************************************************)
(* UsbReader: calibration                                                  *)
(***************************************************************************)
calibration_samples_n == 15     \* UsbReader.calibration_samples_n

\* the keys of calibration_mapping
Kinds == Range(code_mapping_order)
EmptyCalibrationMapping == [key \in Kinds |-> <<>>]

\* the cells do_calibration reads for a piece kind, in the order of its
\* add_mapping calls
CalibrationCells(key) ==
    CASE key = "p" -> <<8, 9, 10, 11, 12, 13, 14, 15>>
      [] key = "P" -> <<48, 49, 50, 51, 52, 53, 54, 55>>
      [] key = "r" -> <<0, 7>>
      [] key = "R" -> <<56, 63>>
      [] key = "n" -> <<1, 6>>
      [] key = "N" -> <<57, 62>>
      [] key = "b" -> <<2, 5>>
      [] key = "B" -> <<58, 61>>
      [] key = "q" -> <<3, 19>>
      [] key = "Q" -> <<59, 43>>
      [] key = "k" -> <<4>>
      [] key = "K" -> <<60>>

\* STEP 1 of do_calibration: the most common code of each cell over the samples
board_reading(samples) ==
    [cell \in Cells |-> most_common([i \in 1..Len(samples) |-> samples[i][cell]])]

\* sum(code)
SumOf(code) == code[1] + code[2] + code[3] + code[4] + code[5]

\* add_mapping for the cells of one kind, with the variant that appends every code
RECURSIVE add_mapping_unchecked(_, _, _)
add_mapping_unchecked(codes, cells, reading) ==
    IF cells = <<>> THEN codes
    ELSE add_mapping_unchecked(Append(codes, reading[Head(cells)]), Tail(cells), reading)

\* add_mapping for the cells of one kind: "do not add empty or repeated codes"
RECURSIVE add_mapping(_, _, _)
add_mapping(codes, cells, reading) ==
    IF cells = <<>> THEN codes
    ELSE LET code == reading[Head(cells)]
         IN  add_mapping(IF SumOf(code) # 0 /\ code \notin Range(codes)
                         THEN Append(codes, code) ELSE codes,
                         Tail(cells), reading)

\* STEP 2 of do_calibration: the mapping after the add_mapping calls, from
\* empty lists for a new setup and from self.calibration_mapping otherwise
do_calibration(samples, mapping, setup) ==
    [key \in Kinds |->
        add_mapping(IF setup THEN <<>> ELSE mapping[key], CalibrationCells(key),
                    board_reading(samples))]

\* calibration_data: the lists in code_mapping_order
calibration_data(mapping) ==
    [j \in 1..Len(code_mapping_order) |-> mapping[code_mapping_order[j]]]

\* lines 251-253 of calibration: a new sample since the last call is kept
calibration_append(samples, cdi, history, i) ==
    IF i > 0 /\ cdi # i
    THEN [samples |-> Append(IF Len(samples) = calibration_samples_n
                             THEN Tail(samples) ELSE samples,
                             history[i + 1]),
          cdi |-> i, appended |-> TRUE]
    ELSE [samples |-> samples, cdi |-> cdi, appended |-> FALSE]

\* line 255, with the variant that starts the pass one sample early
enough_samples_early(samples) == Len(samples) >= calibration_samples_n - 1

\* line 255: len(self.calibration_samples) >= self.calibration_samples_n
enough_samples(samples) == Len(samples) >= calibration_samples_n

\* history: when a sample was appended: the number of armings of calibration so
\* far (clicks on add piece or new setup), new_setup, and the passes completed
SampleTag(armings, setup, done) == [arming |-> armings, setup |-> setup, passes |-> done]

NoCall == [called |-> FALSE, active |-> FALSE, setup |-> FALSE, appended |-> FALSE,
           len_after |-> 0, pass |-> FALSE, returned |-> "none", len_at_return |-> 0,
           armings |-> 0, collected |-> <<>>, used |-> <<>>,
           used_for |-> SampleTag(0, FALSE, 0)]

\* history: the tags of the samples after a call of calibration
Collected(A, n_before) ==
    IF A.appended
    THEN Append(IF n_before = calibration_samples_n THEN Tail(cal_call.collected)
                ELSE cal_call.collected,
                SampleTag(cal_call.armings, new_setup, passes))
    ELSE cal_call.collected

\* UsbReader.__init__ (lines 94-97) and run.py lines 393, 432
CalInit ==
    /\ calibration_samples = <<>>
    /\ calibration_data_history_i = NoneInt
    /\ calibration_mapping = EmptyCalibrationMapping
    /\ new_setup = FALSE
    /\ frame_changes = 0
    /\ file_before = NoFile
    /\ cal_call = NoCall
    /\ passes = 0
    /\ crashes = 0

\* the program outside the calibration specification
CalIdle ==
    /\ CalInit
    /\ cal_pc = "running"
    /\ device_frame = EmptyFrame
    /\ started = [from |-> "none", raised |-> FALSE, only_zero |-> FALSE,
                  needs_calibration |-> FALSE]

NoLedCall == [op |-> "none", message |-> NoMsg, rotate180 |-> FALSE,
              prev |-> NoMsg, requested |-> NoMsg, enqueued |-> 0, leds |-> <<>>,
              last_frame |-> <<>>]

\* no take-back has happened
NoTakeBack == [recognized |-> FALSE, human_game |-> FALSE, before |-> <<>>,
               physical |-> <<>>, after |-> <<>>, raised |-> FALSE]

\* GameClock.__init__ (utils.py 96-104); last_tick is the time of the last
\* self.clock.tick()
NoClock == [time_constraint |-> "unlimited", time_increment_seconds |-> 0,
            time_left |-> <<0, 0>>, waiting_for_player |-> -99,
            game_overtime |-> FALSE, last_tick |-> 0]

\* history: the engine was not asked, no engine move was pushed
NoAsk == [made |-> FALSE, turn |-> FALSE]

\* history: no pass of the loop that waits for the engine's move
NoWait == [passed |-> FALSE, exit |-> "none", alive |-> FALSE, force |-> FALSE,
           overtime_before |-> FALSE, overtime |-> FALSE, pushed |-> FALSE]

\* the game loop before a game is started (run.py 388-403)
NoGame == [chessboard |-> <<>>, board_state |-> <<>>, human_game |-> FALSE,
           play_white |-> TRUE, rom |-> FALSE, move_detect_tries |-> 0,
           waiting_for_user_move |-> FALSE, pc |-> "idle", take_back |-> NoTakeBack,
           do_ai_move |-> TRUE, do_user_move |-> FALSE, move |-> <<>>,
           game_overtime |-> FALSE, clock |-> NoClock, waiting_ai_move |-> FALSE,
           alive |-> FALSE, ask |-> NoAsk, ai_push |-> NoAsk, wait |-> NoWait]

\* the program outside the calibration and LED call specifications
AuxIdle ==
    /\ CalIdle
    /\ led_call = NoLedCall
    /\ game = NoGame

(***************************************************************************)
(* get_moves: move inference over the rule engine                          *)
(*                                                                         *)
(* The rule engine (python-chess) is an outside capability. A position is  *)
(* the logical board's position followed by the plies pushed on it; the    *)
(* engine gives each position its legal moves, numbered in generation      *)
(* order, and its board field.                                             *)
(***************************************************************************)
Fields == {"field_a", "field_b"}

\* list(position.generate_legal_moves()), the plies pushed being `plies`
generate_legal_moves(plies) ==
    LET n == IF plies = <<>> THEN engine.n0
             ELSE IF Len(plies) = 1 THEN engine.n1[plies[1]]
             ELSE 0
    IN  [i \in 1..n |-> i]

\* position.board_fen(), the plies pushed being `plies`
board_fen_of(plies) ==
    IF plies = <<>> THEN engine.f0
    ELSE IF Len(plies) = 1 THEN engine.f1[plies[1]]
    ELSE engine.f2[<<plies[1], plies[2]>>]

\* the plies of a move stack since the logical board's position
Plies(stack) == SubSeq(stack, Len(board_before) + 1, Len(stack))

\* fen.split()[0]
physical_field == Head(fen)

Returned(ms) == [kind |-> "return", moves |-> ms]
Raised == [kind |-> "InvalidMove", moves |-> <<>>]
NotYet == [kind |-> "running", moves |-> <<>>]

GmIdle ==
    /\ engine = [n0 |-> 0, n1 |-> <<>>, f0 |-> "field_a", f1 |-> <<>>, f2 |-> <<>>]
    /\ board = <<>>
    /\ fen = <<"field_a">>
    /\ gm_pc = "idle"
    /\ copy_board = <<>>
    /\ moves = <<>>
    /\ legal_moves2 = <<>>
    /\ move_i = 0
    /\ move2_i = 0
    /\ gm_result = NotYet
    /\ board_before = <<>>
    /\ n_generated = 0
    /\ n_pushed = 0

\* The rule engines explored: every tree of at most MaxMoves legal moves per
\* position, two plies deep, with a board field at each position (the entries of
\* moves that are not legal are fixed, so that each engine is one value)
Engines ==
    LET M == 1..MaxMoves
    IN  {e \in [n0 : 0..MaxMoves, n1 : [M -> 0..MaxMoves], f0 : Fields,
                f1 : [M -> Fields], f2 : [M \X M -> Fields]] :
            /\ \A i \in M : i > e.n0 => (e.n1[i] = 0 /\ e.f1[i] = "field_a")
            /\ \A i, j \in M : j > e.n1[i] => e.f2[<<i, j>>] = "field_a"}

\* lines 667-673: the comparison of the two fields, then the copy and the list
\* of legal moves; with the variant that lists the legal moves first
GM_Call_generate_first ==
    /\ gm_pc = "idle"
    /\ copy_board' = board
    /\ moves' = generate_legal_moves(<<>>)
    /\ n_generated' = n_generated + 1
    /\ IF board_fen_of(<<>>) = physical_field
       THEN gm_result' = Returned(<<>>) /\ gm_pc' = "done"
       ELSE gm_result' = gm_result /\ gm_pc' = "single"
    /\ move_i' = 1
    /\ UNCHANGED <<engine, board, fen, legal_moves2, move2_i, board_before, n_pushed>>

\* lines 667-673, with the variant that goes to the two-move search at once
GM_Call_skip_single ==
    /\ gm_pc = "idle"
    /\ IF board_fen_of(<<>>) = physical_field
       THEN /\ gm_result' = Returned(<<>>)
            /\ gm_pc' = "done"
            /\ UNCHANGED <<copy_board, moves, move_i, n_generated>>
       ELSE /\ copy_board' = board
            /\ moves' = generate_legal_moves(<<>>)
            /\ n_generated' = n_generated + 1
            /\ move_i' = 1
            /\ gm_pc' = "double"
            /\ UNCHANGED gm_result
    /\ UNCHANGED <<engine, board, fen, legal_moves2, move2_i, board_before, n_pushed>>

\* lines 667-673: the comparison of the two fields, then the copy and the list
\* of legal moves
GM_Call ==
    /\ gm_pc = "idle"
    /\ IF board_fen_of(<<>>) = physical_field
       THEN /\ gm_result' = Returned(<<>>)
            /\ gm_pc' = "done"
            /\ UNCHANGED <<copy_board, moves, move_i, n_generated>>
       ELSE /\ copy_board' = board
            /\ moves' = generate_legal_moves(<<>>)
            /\ n_generated' = n_generated + 1
            /\ move_i' = 1
            /\ gm_pc' = "single"
            /\ UNCHANGED gm_result
    /\ UNCHANGED <<engine, board, fen, legal_moves2, move2_i, board_before, n_pushed>>

\* lines 674-679, with the variant that does not return at a match
GM_Single_no_return ==
    /\ gm_pc = "single"
    /\ IF move_i > Len(moves)
       THEN /\ move_i' = 1
            /\ gm_pc' = "double"
            /\ UNCHANGED <<copy_board, gm_result, n_pushed>>
       ELSE /\ n_pushed' = n_pushed + 1
            /\ copy_board' = copy_board
            /\ move_i' = move_i + 1
            /\ UNCHANGED <<gm_pc, gm_result>>
    /\ UNCHANGED <<engine, board, fen, moves, legal_moves2, move2_i, board_before,
                   n_generated>>

\* lines 674-679: one pass of the loop over moves (push, compare, return or pop)
GM_Single ==
    /\ gm_pc = "single"
    /\ IF move_i > Len(moves)
       THEN /\ move_i' = 1
            /\ gm_pc' = "double"
            /\ UNCHANGED <<copy_board, gm_result, n_pushed>>
       ELSE LET pushed == Append(copy_board, moves[move_i])
            IN  /\ n_pushed' = n_pushed + 1
                /\ IF physical_field = board_fen_of(Plies(pushed))
                   THEN /\ gm_result' = Returned(<<moves[move_i]>>)
                        /\ gm_pc' = "done"
                        /\ copy_board' = pushed
                        /\ UNCHANGED move_i
                   ELSE /\ copy_board' = copy_board
                        /\ move_i' = move_i + 1
                        /\ UNCHANGED <<gm_pc, gm_result>>
    /\ UNCHANGED <<engine, board, fen, moves, legal_moves2, move2_i, board_before,
                   n_generated>>

\* lines 680-682 and 691: the outer loop of the two-move search pushes a move and
\* lists the replies; InvalidMove when the loop is over
GM_Double ==
    /\ gm_pc = "double"
    /\ IF move_i > Len(moves)
       THEN /\ gm_result' = Raised
            /\ gm_pc' = "done"
            /\ UNCHANGED <<copy_board, legal_moves2, move2_i, n_generated, n_pushed>>
       ELSE LET pushed == Append(copy_board, moves[move_i])
            IN  /\ copy_board' = pushed
                /\ n_pushed' = n_pushed + 1
                /\ legal_moves2' = generate_legal_moves(Plies(pushed))
                /\ n_generated' = n_generated + 1
                /\ move2_i' = 1
                /\ gm_pc' = "reply"
                /\ UNCHANGED gm_result
    /\ UNCHANGED <<engine, board, fen, moves, move_i, board_before>>

\* lines 683-689, with the variant that raises when the replies to one move are
\* used up
GM_Reply_raise_early ==
    /\ gm_pc = "reply"
    /\ IF move2_i > Len(legal_moves2)
       THEN /\ gm_result' = Raised
            /\ gm_pc' = "done"
            /\ copy_board' = SubSeq(copy_board, 1, Len(copy_board) - 1)
            /\ UNCHANGED <<move_i, move2_i, n_pushed>>
       ELSE LET pushed == Append(copy_board, legal_moves2[move2_i])
            IN  /\ n_pushed' = n_pushed + 1
                /\ IF physical_field = board_fen_of(Plies(pushed))
                   THEN /\ gm_result' = Returned(<<moves[move_i], legal_moves2[move2_i]>>)
                        /\ gm_pc' = "done"
                        /\ copy_board' = pushed
                        /\ UNCHANGED <<move_i, move2_i>>
                   ELSE /\ copy_board' = copy_board
                        /\ move2_i' = move2_i + 1
                        /\ UNCHANGED <<gm_pc, gm_result, move_i>>
    /\ UNCHANGED <<engine, board, fen, moves, legal_moves2, board_before, n_generated>>

\* lines 683-689: one pass of the loop over legal_moves2 (push, compare, return
\* or pop), and the pop of the first move when the replies are used up
GM_Reply ==
    /\ gm_pc = "reply"
    /\ IF move2_i > Len(legal_moves2)
       THEN /\ copy_board' = SubSeq(copy_board, 1, Len(copy_board) - 1)
            /\ move_i' = move_i + 1
            /\ gm_pc' = "double"
            /\ UNCHANGED <<gm_result, move2_i, n_pushed>>
       ELSE LET pushed == Append(copy_board, legal_moves2[move2_i])
            IN  /\ n_pushed' = n_pushed + 1
                /\ IF physical_field = board_fen_of(Plies(pushed))
                   THEN /\ gm_result' = Returned(<<moves[move_i], legal_moves2[move2_i]>>)
                        /\ gm_pc' = "done"
                        /\ copy_board' = pushed
                        /\ UNCHANGED <<move_i, move2_i>>
                   ELSE /\ copy_board' = copy_board
                        /\ move2_i' = move2_i + 1
                        /\ UNCHANGED <<gm_pc, gm_result, move_i>>
    /\ UNCHANGED <<engine, board, fen, moves, legal_moves2, board_before, n_generated>>

(***************************************************************************)
(* Board fields as the gesture decoder reads them                          *)
(*                                                                         *)
(* A board field is the list of its eight ranks (board_state.split('/')),  *)
(* rank 8 first, and a rank is the list of its characters.                 *)
(***************************************************************************)
Uppers == <<"R", "N", "B", "Q", "K", "P">>
Lowers == <<"r", "n", "b", "q", "k", "p">>

\* str.lower() of one character, and of a rank
LowerChar(c) == IF c \in Range(Uppers) THEN Lowers[IndexOf(Uppers, c) + 1] ELSE c
LowerRow(row) == [i \in 1..Len(row) |-> LowerChar(row[i])]

\* char.isdigit()
isdigit(c) == c \in Range(Digits)

\* hasNumbers of home_window
hasNumbers(inputString) == \E i \in 1..Len(inputString) : isdigit(inputString[i])

\* row[::2]
EverySecond(row) == [i \in 1..((Len(row) + 1) \div 2) |-> row[2 * i - 1]]

\* c in row
In(c, row) == c \in Range(row)

\* int(c), or the value `otherwise` where int(c) raises ValueError
IntOr(c, otherwise) == IF isdigit(c) THEN IntOf(c) ELSE otherwise

\* board_rows[a:b] of Python, as ranks a+1..b
Rows(board_rows, a, b) == SubSeq(board_rows, a + 1, b)

Last(row) == row[Len(row)]

\* the ranks the patterns are written with, by their text
board_row ==
    ("rnbqkbnr" :> <<"r", "n", "b", "q", "k", "b", "n", "r">>)
    @@ ("pppppppp" :> <<"p", "p", "p", "p", "p", "p", "p", "p">>)
    @@ ("PPPPPPPP" :> <<"P", "P", "P", "P", "P", "P", "P", "P">>)
    @@ ("RNBQKBNR" :> <<"R", "N", "B", "Q", "K", "B", "N", "R">>)
    @@ ("rnbq1bnr" :> <<"r", "n", "b", "q", "1", "b", "n", "r">>)
    @@ ("RNBQ1BNR" :> <<"R", "N", "B", "Q", "1", "B", "N", "R">>)
    @@ ("8" :> <<"8">>)
    @@ ("3q4" :> <<"3", "q", "4">>)
    @@ ("3Q4" :> <<"3", "Q", "4">>)
    @@ ("4q3" :> <<"4", "q", "3">>)
    @@ ("4Q3" :> <<"4", "Q", "3">>)
    @@ ("4k3" :> <<"4", "k", "3">>)
    @@ ("4K3" :> <<"4", "K", "3">>)
    @@ ("3k4" :> <<"3", "k", "4">>)
    @@ ("3K4" :> <<"3", "K", "4">>)
    @@ ("qq6" :> <<"q", "q", "6">>)
    @@ ("1q6" :> <<"1", "q", "6">>)
    @@ ("q1q5" :> <<"q", "1", "q", "5">>)
    @@ ("2q5" :> <<"2", "q", "5">>)
    @@ ("K7" :> <<"K", "7">>)

\* The board with all pieces of the starting position on their squares and the
\* four middle ranks as given
Ranks(r6, r5, r4, r3) ==
    <<board_row["rnbqkbnr"], board_row["pppppppp"], r6, r5, r4, r3, board_row["PPPPPPPP"], board_row["RNBQKBNR"]>>

\* The same with both kings off their squares
RanksNoKings(r6, r5, r4, r3) ==
    <<board_row["rnbq1bnr"], board_row["pppppppp"], r6, r5, r4, r3, board_row["PPPPPPPP"], board_row["RNBQ1BNR"]>>

StartBoard == Ranks(board_row["8"], board_row["8"], board_row["8"], board_row["8"])
NewGameBoard == Ranks(board_row["8"], board_row["3q4"], board_row["3Q4"], board_row["8"])
CalibrateBoard == Ranks(board_row["3q4"], board_row["8"], board_row["8"], board_row["3Q4"])
StartGameBoard == Ranks(board_row["8"], board_row["4q3"], board_row["4Q3"], board_row["8"])
ExitApplicationBoard == RanksNoKings(board_row["8"], board_row["4k3"], board_row["4K3"], board_row["8"])
ExitGameBoard == RanksNoKings(board_row["8"], board_row["4k3"], board_row["3K4"], board_row["8"])
DifficultyBoard == Ranks(board_row["8"], <<"2", "Q", "5">>, board_row["8"], board_row["8"])
NoKingsBoard == RanksNoKings(board_row["8"], board_row["8"], board_row["8"], board_row["8"])
NoBlackKingBoard ==
    <<board_row["rnbq1bnr"], board_row["pppppppp"], board_row["8"], board_row["8"], board_row["8"], board_row["8"], board_row["PPPPPPPP"], board_row["RNBQKBNR"]>>

\* The physical boards explored by the gesture specification and by the exit
\* specification
GestureBoards == {StartBoard, NewGameBoard, CalibrateBoard, StartGameBoard,
                  DifficultyBoard, NoKingsBoard, NoBlackKingBoard}
ExitBoards == {StartBoard, ExitApplicationBoard, ExitGameBoard, NoKingsBoard}

(***************************************************************************)
(* PicoChess: the gesture decoder                                          *)
(***************************************************************************)
ExitTypes == {"application", "game"}

\* The PicoChess object's fields as one value
PicoState == [on |-> on,
              last_command_time |-> last_command_time,
              last_exit_command_time |-> last_exit_command_time,
              exit_command |-> exit_command,
              start_game |-> start_game,
              can_calibrate |-> can_calibrate]

\* The PicoChess object's variables take the values of P
PicoBecomes(P) ==
    /\ on' = P.on
    /\ last_command_time' = P.last_command_time
    /\ last_exit_command_time' = P.last_exit_command_time
    /\ exit_command' = P.exit_command
    /\ start_game' = P.start_game
    /\ can_calibrate' = P.can_calibrate

\* kings_in_exit_position of check_exit
kings_in_exit_position(board_state, type_) ==
    LET middle == <<LowerRow(board_state[4]), LowerRow(board_state[5])>>
    IN  IF type_ = "game"
        THEN middle \in {<<board_row["4k3"], board_row["3k4"]>>, <<board_row["3k4"], board_row["4k3"]>>}
        ELSE middle \in {<<board_row["4k3"], board_row["4k3"]>>, <<board_row["3k4"], board_row["3k4"]>>}

\* PicoChess.check_exit with the variant that leaves exit_command set at an abort
check_exit_keeps_command(P, L, board_state, type_, ticks, clock) ==
    IF ~P.on THEN [pico |-> P, led |-> L, ret |-> 0]
    ELSE IF ticks - P.last_exit_command_time < wait_between_commands
            /\ P.exit_command[type_]
    THEN IF kings_in_exit_position(board_state, type_)
         THEN [pico |-> P, led |-> flash_leds(L, Str("all"), FALSE, clock), ret |-> 1]
         ELSE [pico |-> P, led |-> set_leds(L, Str("none"), FALSE), ret |-> 1]
    ELSE IF P.exit_command[type_]
    THEN [pico |-> [P EXCEPT !.exit_command[type_] = FALSE], led |-> L, ret |-> 2]
    ELSE IF kings_in_exit_position(board_state, type_)
    THEN [pico |-> [P EXCEPT !.exit_command[type_] = TRUE,
                             !.last_exit_command_time =
                                 ticks + (5000 - wait_between_commands)],
          led |-> L, ret |-> 1]
    ELSE [pico |-> P, led |-> L, ret |-> 0]

\* PicoChess.check_exit with the variant that counts wait_between_commands from
\* the initiation
check_exit_short_countdown(P, L, board_state, type_, ticks, clock) ==
    IF ~P.on THEN [pico |-> P, led |-> L, ret |-> 0]
    ELSE IF ticks - P.last_exit_command_time < wait_between_commands
            /\ P.exit_command[type_]
    THEN IF kings_in_exit_position(board_state, type_)
         THEN [pico |-> P, led |-> flash_leds(L, Str("all"), FALSE, clock), ret |-> 1]
         ELSE [pico |-> [P EXCEPT !.exit_command[type_] = FALSE],
               led |-> set_leds(L, Str("none"), FALSE), ret |-> 1]
    ELSE IF P.exit_command[type_]
    THEN [pico |-> [P EXCEPT !.exit_command[type_] = FALSE], led |-> L, ret |-> 2]
    ELSE IF kings_in_exit_position(board_state, type_)
    THEN [pico |-> [P EXCEPT !.exit_command[type_] = TRUE,
                             !.last_exit_command_time = ticks],
          led |-> L, ret |-> 1]
    ELSE [pico |-> P, led |-> L, ret |-> 0]

\* PicoChess.check_exit at pygame.time.get_ticks() = ticks and time.time() = clock
check_exit(P, L, board_state, type_, ticks, clock) ==
    IF ~P.on THEN [pico |-> P, led |-> L, ret |-> 0]
    ELSE IF ticks - P.last_exit_command_time < wait_between_commands
            /\ P.exit_command[type_]
    THEN IF kings_in_exit_position(board_state, type_)
         THEN [pico |-> P, led |-> flash_leds(L, Str("all"), FALSE, clock), ret |-> 1]
         ELSE [pico |-> [P EXCEPT !.exit_command[type_] = FALSE],
               led |-> set_leds(L, Str("none"), FALSE), ret |-> 1]
    ELSE IF P.exit_command[type_]
    THEN [pico |-> [P EXCEPT !.exit_command[type_] = FALSE], led |-> L, ret |-> 2]
    ELSE IF kings_in_exit_position(board_state, type_)
    THEN [pico |-> [P EXCEPT !.exit_command[type_] = TRUE,
                             !.last_exit_command_time =
                                 ticks + (5000 - wait_between_commands)],
          led |-> L, ret |-> 1]
    ELSE [pico |-> P, led |-> L, ret |-> 0]

\* The calibration pattern of home_window (lines 290-293)
calibration_pattern(board_rows) ==
    /\ \A row \in {0, 1, 6, 7} :
          Len(board_rows[row + 1]) = 8 /\ ~hasNumbers(board_rows[row + 1])
    /\ \A row \in {3, 4} : board_rows[row + 1] = board_row["8"]
    /\ EverySecond(board_rows[3]) = <<"3", "4">>
    /\ EverySecond(board_rows[6]) = <<"3", "4">>

\* PicoChess.home_window with the variant that leaves can_calibrate set
home_window_stays_armed(P, L, board_state, ticks) ==
    IF board_state \in {Ranks(board_row["8"], board_row["3q4"], board_row["3Q4"], board_row["8"]),
                        Ranks(board_row["8"], board_row["3Q4"], board_row["3q4"], board_row["8"])}
    THEN [pico |-> [P EXCEPT !.last_command_time = ticks],
          led |-> set_leds(L, Str("corners"), FALSE),
          r1 |-> "new game", r2 |-> FALSE]
    ELSE IF P.can_calibrate /\ calibration_pattern(board_state)
    THEN [pico |-> [P EXCEPT !.last_command_time = ticks],
          led |-> set_leds(L, Str("corners"), FALSE),
          r1 |-> "home", r2 |-> TRUE]
    ELSE [pico |-> P, led |-> L, r1 |-> "home", r2 |-> FALSE]

\* PicoChess.home_window; r1 is the window returned, r2 the calibration request
home_window(P, L, board_state, ticks) ==
    IF board_state \in {Ranks(board_row["8"], board_row["3q4"], board_row["3Q4"], board_row["8"]),
                        Ranks(board_row["8"], board_row["3Q4"], board_row["3q4"], board_row["8"])}
    THEN [pico |-> [P EXCEPT !.last_command_time = ticks],
          led |-> set_leds(L, Str("corners"), FALSE),
          r1 |-> "new game", r2 |-> FALSE]
    ELSE IF P.can_calibrate /\ calibration_pattern(board_state)
    THEN [pico |-> [P EXCEPT !.last_command_time = ticks, !.can_calibrate = FALSE],
          led |-> set_leds(L, Str("corners"), FALSE),
          r1 |-> "home", r2 |-> TRUE]
    ELSE [pico |-> P, led |-> L, r1 |-> "home", r2 |-> FALSE]

\* The installation explored: what get_book_list() and get_engine_list() return
BookList == <<"book_a", "book_b">>
EngineList == <<"engine_a", "stockfish">>

Levels == <<16, 30, 42, 52, 60, 66, 70, 72>>
TimeConstraints == <<"classical", "rapid", "blitz", "unlimited", "custom">>

\* the first queen of a rank that has one: qs[0]
FirstQueen(row) ==
    row[CHOOSE i \in 1..Len(row) :
            row[i] \in {"Q", "q"} /\ \A j \in 1..(i - 1) : row[j] \notin {"Q", "q"}]

\* row_0_to_71 with the variant that does not look at which queen comes first
row_0_to_71_any_order(row) ==
    IF In("Q", row) /\ In("q", row)
    THEN LET leftmost_gap == IntOr(row[1], 0)
             base == Levels[leftmost_gap + 1]
             diff == (Levels[leftmost_gap + 2] - Levels[leftmost_gap + 1]) \div 2
             rightmost_gap == IntOr(Last(row), 0)
             extra == diff - rightmost_gap
         IN  base + extra - 1
    ELSE (8 - IntOr(Last(row), 0)) + (IF In("q", row) THEN 8 ELSE 0) - 1

\* row_0_to_71 of new_game_window
row_0_to_71(row) ==
    IF In("Q", row) /\ In("q", row)
    THEN LET leftmost_gap == IntOr(row[1], 0)
             base == Levels[leftmost_gap + 1]
             diff == (Levels[leftmost_gap + 2] - Levels[leftmost_gap + 1]) \div 2
             rightmost_gap == IntOr(Last(row), 0)
             extra == (diff - rightmost_gap)
                      + (IF FirstQueen(row) = "q" THEN diff ELSE 0)
         IN  base + extra - 1
    ELSE (8 - IntOr(Last(row), 0)) + (IF In("q", row) THEN 8 ELSE 0) - 1

\* lines 383-414: color, flip board, chess 960 and book, from rank 3
color_flip_book(settings, row) ==
    LET s1 == IF row[1] = "Q" THEN [settings EXCEPT !.play_white = TRUE]
              ELSE IF row[1] = "q" THEN [settings EXCEPT !.play_white = FALSE]
              ELSE settings
        s2 == IF LowerRow(row) \in {board_row["qq6"], board_row["1q6"]} THEN [s1 EXCEPT !.rotate180 = FALSE]
              ELSE IF LowerRow(row) \in {board_row["q1q5"], board_row["2q5"]}
              THEN [s1 EXCEPT !.rotate180 = TRUE]
              ELSE s1
        s3 == IF LowerRow(row) = board_row["3q4"]
              THEN [s2 EXCEPT !.chess960 = (row[2] = "Q")]
              ELSE s2
        book_offset == (IntOf(row[1]) - 4) + (IF In("q", row) THEN 4 ELSE 0)
    IN  IF row[1] \in {"4", "5", "6", "7"} /\ row[2] \in {"Q", "q"}
        THEN IF In("Q", row) /\ In("q", row)
             THEN [s3 EXCEPT !.book = ""]
             ELSE [s3 EXCEPT !.book = IF book_offset < Len(BookList)
                                      THEN BookList[book_offset + 1] ELSE ""]
        ELSE s3

\* lines 416-434: use board position, side to move and time constraint, from rank 4
position_side_time(settings, row) ==
    LET s1 == IF row[1] = "Q"
              THEN [settings EXCEPT !.use_board_position = FALSE, !.side_to_move = "white"]
              ELSE IF row[1] = "q" THEN [settings EXCEPT !.use_board_position = TRUE]
              ELSE settings
        index == 7 - IntOf(row[1])
    IN  IF LowerRow(row) \in {board_row["qq6"], board_row["1q6"]} THEN [s1 EXCEPT !.side_to_move = "white"]
        ELSE IF LowerRow(row) \in {board_row["q1q5"], board_row["2q5"]}
        THEN [s1 EXCEPT !.side_to_move = "black"]
        ELSE IF isdigit(row[1]) /\ index < 5
        THEN [s1 EXCEPT !.time_constraint = TimeConstraints[index + 1]]
        ELSE s1


\* lines 502-507: the time settings take the minutes and seconds that were read
set_times(settings, mins, secs) ==
    IF mins # NoneInt \/ secs # NoneInt
    THEN [settings EXCEPT
             !.time_constraint = "custom",
             !.time_total_minutes = IF mins # NoneInt THEN mins ELSE @,
             !.time_increment_seconds = IF secs # NoneInt THEN secs ELSE @]
    ELSE settings

\* lines 447-500: minutes from the white king and seconds from the black king
king_time(settings, board_rows) ==
    set_times(
        IF board_rows[6] = board_row["K7"]
        THEN [settings EXCEPT !.time_constraint = "unlimited"] ELSE settings,
        \* mins
        IF In("K", board_rows[6])
        THEN IF board_rows[6] = board_row["K7"] THEN NoneInt
             ELSE 7 - IntOr(Last(board_rows[6]), 0)
        ELSE IF In("K", board_rows[5]) THEN 15 - IntOr(Last(board_rows[5]), 0)
        ELSE IF In("K", board_rows[4]) THEN 30 - IntOr(Last(board_rows[4]), 0) * 2
        ELSE IF In("K", board_rows[3])
        THEN IF isdigit(Last(board_rows[3]))
             THEN 110 - IntOf(Last(board_rows[3])) * 10 ELSE 120
        ELSE NoneInt,
        \* secs
        IF In("k", board_rows[6]) THEN 7 - IntOr(Last(board_rows[6]), 0)
        ELSE IF In("k", board_rows[5]) THEN 15 - IntOr(Last(board_rows[5]), 0)
        ELSE IF In("k", board_rows[4]) THEN 30 - IntOr(Last(board_rows[4]), 0) * 2
        ELSE IF In("k", board_rows[3])
        THEN IF isdigit(Last(board_rows[3]))
             THEN 110 - IntOf(Last(board_rows[3])) * 10 ELSE 120
        ELSE NoneInt)

\* lines 365-380: with all pieces in place, queens on e5 and e4 arm the start
arms_start(board_rows) ==
    /\ <<board_rows[1], board_rows[2], board_rows[7], board_rows[8]>>
          = <<board_row["rnbqkbnr"], board_row["pppppppp"], board_row["PPPPPPPP"], board_row["RNBQKBNR"]>>
    /\ Cardinality({k \in 2..5 : Len(board_rows[k + 1]) = 3}) = 2
    /\ <<LowerRow(board_rows[4]), LowerRow(board_rows[5])>> = <<board_row["4q3"], board_row["4q3"]>>

\* lines 365-507: the settings as the board changes them
parse_settings(settings, board_rows) ==
    LET static_rows == <<board_rows[1], board_rows[2], board_rows[7], board_rows[8]>>
        queens(k) == In("Q", board_rows[k + 1]) \/ In("q", board_rows[k + 1])
    IN  IF static_rows = <<board_row["rnbqkbnr"], board_row["pppppppp"], board_row["PPPPPPPP"], board_row["RNBQKBNR"]>>
        THEN IF Cardinality({k \in 2..5 : Len(board_rows[k + 1]) = 3}) = 2 THEN settings
             ELSE IF queens(5) THEN color_flip_book(settings, board_rows[6])
             ELSE IF queens(4) THEN position_side_time(settings, board_rows[5])
             ELSE IF queens(3)
             THEN [settings EXCEPT !.difficulty = row_0_to_71(board_rows[4])]
             ELSE IF queens(2)
             THEN [settings EXCEPT !.engine =
                      IF row_0_to_71(board_rows[3]) < Len(EngineList)
                      THEN EngineList[row_0_to_71(board_rows[3]) + 1] ELSE "stockfish"]
             ELSE settings
        ELSE IF static_rows \in
                   {<<board_row["rnbq1bnr"], board_row["pppppppp"], board_row["PPPPPPPP"], board_row["RNBQKBNR"]>>,
                    <<board_row["rnbqkbnr"], board_row["pppppppp"], board_row["PPPPPPPP"], board_row["RNBQ1BNR"]>>,
                    <<board_row["rnbq1bnr"], board_row["pppppppp"], board_row["PPPPPPPP"], board_row["RNBQ1BNR"]>>}
        THEN king_time(settings, board_rows)
        ELSE settings

\* lines 362-515 once the settings were read: the time of the command is kept
settings_read(P, L, settings, new, arms, ticks) ==
    [pico |-> [P EXCEPT
                  !.start_game = IF arms THEN TRUE ELSE @,
                  !.last_command_time =
                      IF new # settings THEN ticks
                      ELSE IF arms
                      THEN (IF settings.use_board_position
                            THEN ticks + (20000 - wait_between_commands) ELSE ticks)
                      ELSE @],
     led |-> set_leds(L, Str("none"), FALSE),
     settings |-> new, r1 |-> FALSE]

\* PicoChess.new_game_window; r1 is the start_game signal returned
new_game_window(P, L, board_state, settings, ticks, clock) ==
    IF ticks - P.last_command_time < wait_between_commands
    THEN [pico |-> P,
          led |-> IF ~P.start_game THEN set_leds(L, Str("corners"), FALSE)
                  ELSE flash_leds(L, Str("corners"), FALSE, clock),
          settings |-> settings, r1 |-> FALSE]
    ELSE IF P.start_game
    THEN IF ~settings.use_board_position
            \/ ((\E r \in 1..8 : In("k", board_state[r]))
                /\ (\E r \in 1..8 : In("K", board_state[r])))
         THEN [pico |-> [P EXCEPT !.start_game = FALSE], led |-> L,
               settings |-> settings, r1 |-> TRUE]
         ELSE [pico |-> [P EXCEPT !.last_command_time = ticks], led |-> L,
               settings |-> settings, r1 |-> FALSE]
    ELSE settings_read(P, L, settings, parse_settings(settings, board_state),
                       arms_start(board_state), ticks)

\* The squares of a rank, "." for an empty one, and the rank of eight squares
RECURSIVE ExpandRow(_)
ExpandRow(row) ==
    IF row = <<>> THEN <<>>
    ELSE (IF isdigit(Head(row)) THEN [i \in 1..IntOf(Head(row)) |-> "."]
          ELSE <<Head(row)>>) \o ExpandRow(Tail(row))

RECURSIVE CompressRow(_, _)
CompressRow(squares, empty) ==
    IF squares = <<>> THEN (IF empty > 0 THEN <<DigitChar(empty)>> ELSE <<>>)
    ELSE IF Head(squares) = "." THEN CompressRow(Tail(squares), empty + 1)
    ELSE (IF empty > 0 THEN <<DigitChar(empty)>> ELSE <<>>)
         \o <<Head(squares)>> \o CompressRow(Tail(squares), 0)

\* temp_board.remove_piece_at(virtual_board.king(color)); temp_board.board_fen()
without_king(virtual_board, king) ==
    [r \in 1..8 |->
        LET squares == ExpandRow(virtual_board[r])
        IN  CompressRow([i \in 1..Len(squares) |->
                            IF squares[i] = king THEN "." ELSE squares[i]], 0)]

\* virtual_board.fen(): the board field, then the side to move, the castling
\* rights, the en passant square and the two counters
full_fen(virtual_board) ==
    [virtual_board EXCEPT ![8] = @ \o <<" ", "w", " ", "K", "Q", "k", "q", " ", "-",
                                        " ", "0", " ", "1">>]

\* lines 519-536: game_window after its call of check_exit, which returned E
game_window_rest(E, physical_board_fen, settings, virtual_board, ticks) ==
    [pico |-> IF /\ physical_board_fen # full_fen(virtual_board)
                 /\ ~(ticks - E.pico.last_command_time < wait_between_commands)
                 /\ ~settings.human_game
                 /\ without_king(without_king(virtual_board, "k"), "K")
                       = physical_board_fen
              THEN [E.pico EXCEPT !.last_command_time = ticks + 2000]
              ELSE E.pico,
     led |-> E.led,
     r1 |-> E.ret,
     r2 |-> /\ physical_board_fen # full_fen(virtual_board)
            /\ ~(ticks - E.pico.last_command_time < wait_between_commands)
            /\ ~settings.human_game
            /\ without_king(without_king(virtual_board, "k"), "K") = physical_board_fen]

\* PicoChess.game_window; r1 is the exit state returned, r2 the hint request
game_window(P, L, physical_board_fen, settings, virtual_board, ticks, clock) ==
    game_window_rest(check_exit(P, L, physical_board_fen, "game", ticks, clock),
                     physical_board_fen, settings, virtual_board, ticks)

\* PicoChess.thinking_window; r1 is the force signal returned
thinking_window(P, physical_board_fen, virtual_board, ticks) ==
    IF ticks - P.last_command_time < wait_between_commands
    THEN [pico |-> P, r1 |-> FALSE]
    ELSE IF \E king \in {"k", "K"} : without_king(virtual_board, king) = physical_board_fen
    THEN [pico |-> [P EXCEPT !.last_command_time = ticks], r1 |-> TRUE]
    ELSE [pico |-> P, r1 |-> FALSE]

\* What update returns, as one shape for the four windows: win is the window
\* returned (home), flag the second value returned (the one value, for
\* thinking), exit_state the first value returned for the game window
FromHome(H, settings) ==
    [pico |-> H.pico, led |-> H.led, settings |-> settings,
     win |-> H.r1, flag |-> H.r2, exit_state |-> 0]
FromNewGame(N) ==
    [pico |-> N.pico, led |-> N.led, settings |-> N.settings,
     win |-> "new game", flag |-> N.r1, exit_state |-> 0]
FromGame(G, settings) ==
    [pico |-> G.pico, led |-> G.led, settings |-> settings,
     win |-> "game", flag |-> G.r2, exit_state |-> G.r1]
FromThinking(T, L, settings) ==
    [pico |-> T.pico, led |-> L, settings |-> settings,
     win |-> "thinking", flag |-> T.r1, exit_state |-> 0]

\* PicoChess.update without the test of exit_command['application']
update_during_countdown(P, L, win, board_state, settings, virtual_board, ticks, clock) ==
    IF ~P.on
    THEN [pico |-> P, led |-> L, settings |-> settings,
          win |-> win, flag |-> FALSE, exit_state |-> 0]
    ELSE IF win = "home"
    THEN FromHome(home_window(P, L, board_state, ticks), settings)
    ELSE IF win = "new game"
    THEN FromNewGame(new_game_window(P, L, board_state, settings, ticks, clock))
    ELSE IF win = "game"
    THEN FromGame(game_window(P, L, board_state, settings, virtual_board, ticks, clock),
                  settings)
    ELSE FromThinking(thinking_window(P, board_state, virtual_board, ticks), L, settings)

\* PicoChess.update: the result of the window's method, or the early return
update(P, L, win, board_state, settings, virtual_board, ticks, clock) ==
    IF P.exit_command["application"] \/ ~P.on
    THEN [pico |-> P, led |-> L, settings |-> settings,
          win |-> win, flag |-> FALSE, exit_state |-> 0]
    ELSE IF win = "home"
    THEN FromHome(home_window(P, L, board_state, ticks), settings)
    ELSE IF win = "new game"
    THEN FromNewGame(new_game_window(P, L, board_state, settings, ticks, clock))
    ELSE IF win = "game"
    THEN FromGame(game_window(P, L, board_state, settings, virtual_board, ticks, clock),
                  settings)
    ELSE FromThinking(thinking_window(P, board_state, virtual_board, ticks), L, settings)

\* run.py lines 359-371: game_settings
default_settings ==
    [human_game |-> FALSE, rotate180 |-> FALSE, use_board_position |-> FALSE,
     side_to_move |-> "white", time_constraint |-> "unlimited",
     time_total_minutes |-> 5, time_increment_seconds |-> 8, chess960 |-> FALSE,
     engine |-> "stockfish", book |-> "", difficulty |-> 0, play_white |-> TRUE]

(***************************************************************************)
(* run.py: the main loop as far as it polls the gesture decoder            *)
(***************************************************************************)
\* the logical board (chessboard) of the games explored
chessboard == StartBoard

\* usb_reader.read_board(rotate180): board_fen, or board_fen[::-1]
RECURSIVE Reversed(_)
Reversed(s) == IF s = <<>> THEN <<>> ELSE Append(Reversed(Tail(s)), Head(s))
read_board(rotate180) ==
    IF rotate180
    THEN Reversed([r \in 1..8 |-> Reversed(physical_board[r])])
    ELSE physical_board

NoCommit == [cmd |-> "none", at |-> 0, window |-> "none"]
NoPoll == [type |-> "none", ret |-> 0, counting |-> FALSE, elapsed |-> 0,
           held |-> FALSE, broke |-> FALSE, was_aborted |-> FALSE,
           command_after |-> FALSE, leds_off_after |-> FALSE,
           in_pattern |-> FALSE]
NoCountdown == [started |-> 0, held |-> FALSE, aborted |-> FALSE]

\* history: the commands a call of update committed, read from what it
\* returned and from what it changed
Committed(P, settings, win, U) ==
    IF win = "home" /\ U.win = "new game" THEN "NewGame"
    ELSE IF win = "home" /\ U.flag THEN "Calibrate"
    ELSE IF win = "new game" /\ U.settings # settings THEN "SettingsChanged"
    ELSE IF win = "new game" /\ U.pico.start_game /\ ~P.start_game THEN "StartGame"
    ELSE IF win = "game" /\ U.flag THEN "HintRequest"
    ELSE IF win = "thinking" /\ U.flag THEN "ForceMove"
    ELSE "none"

\* history: no gesture seen, no window polled; the history is kept by the
\* specification of the start, hint and calibrate gestures only
NoGestures ==
    [kept |-> FALSE, polled_at |-> -1, gesture_at |-> -1, starts |-> 0, home_command |-> FALSE,
     poll |-> [called |-> FALSE, ret |-> FALSE, armed |-> FALSE, elapsed |-> FALSE,
               since |-> 0, use_board_position |-> FALSE, kings |-> FALSE,
               rearmed |-> FALSE],
     hint |-> [called |-> FALSE, ret |-> FALSE, human_game |-> FALSE,
               elapsed |-> FALSE, matches |-> FALSE],
     hint_at |-> -1, hint_gap |-> -1, home_since_hint |-> FALSE,
     hint_gap_home |-> FALSE, calibrates |-> 0, shown_again |-> FALSE,
     settings_board |-> <<>>]

\* 'k' in board_state and 'K' in board_state
kings_on_board(board_state) ==
    /\ \E r \in 1..8 : In("k", board_state[r])
    /\ \E r \in 1..8 : In("K", board_state[r])

\* history: what a call of update(win) that returned U means for the start
\* gesture, the hint request and the calibrate gesture. The gesture is the call
\* of new_game_window that sets start_game; home_command and home_since_hint
\* tell that home_window has set last_command_time since the gesture and since
\* the hint request; shown_again tells that home_window has seen the calibration
\* pattern after it returned the Calibrate command; settings_board is the board
\* from which new_game_window has last changed the settings.
Logged(P, settings, win, U) ==
    LET g == gesture_log
        called == ~(P.exit_command["application"] \/ ~P.on)
        arms == win = "new game" /\ U.pico.start_game /\ ~P.start_game
        home == win = "home" /\ U.pico.last_command_time # P.last_command_time
        hinted == win = "game" /\ U.flag
    IN  IF ~g.kept THEN g ELSE
        [kept |-> TRUE, polled_at |-> now,
         gesture_at |-> IF arms THEN now ELSE g.gesture_at,
         starts |-> IF arms THEN 0
                    ELSE IF win = "new game" /\ U.flag THEN g.starts + 1
                    ELSE g.starts,
         home_command |-> IF arms THEN FALSE ELSE g.home_command \/ home,
         poll |-> IF win = "new game"
                  THEN [called |-> called, ret |-> U.flag, armed |-> P.start_game,
                        elapsed |-> ~(now - P.last_command_time < wait_between_commands),
                        since |-> IF U.flag THEN now - g.gesture_at ELSE 0,
                        use_board_position |-> settings.use_board_position,
                        kings |-> kings_on_board(read_board(FALSE)),
                        rearmed |-> U.pico.last_command_time = now]
                  ELSE g.poll,
         hint |-> IF win = "game"
                  THEN [called |-> called, ret |-> U.flag,
                        human_game |-> settings.human_game,
                        elapsed |-> ~(now - P.last_command_time < wait_between_commands),
                        matches |-> without_king(without_king(chessboard, "k"), "K")
                                       = read_board(FALSE)]
                  ELSE g.hint,
         hint_at |-> IF hinted THEN now ELSE g.hint_at,
         hint_gap |-> IF hinted /\ g.hint_at # -1 THEN now - g.hint_at ELSE g.hint_gap,
         home_since_hint |-> IF hinted THEN FALSE ELSE g.home_since_hint \/ home,
         hint_gap_home |-> IF hinted THEN g.home_since_hint ELSE g.hint_gap_home,
         calibrates |-> g.calibrates + (IF win = "home" /\ U.flag THEN 1 ELSE 0),
         shown_again |-> \/ g.shown_again
                         \/ /\ win = "home" /\ called /\ g.calibrates > 0
                            /\ calibration_pattern(read_board(FALSE)),
         settings_board |-> IF win = "new game" /\ U.settings # settings
                            THEN read_board(FALSE) ELSE g.settings_board]

Commits(P, settings, win, U) ==
    LET cmd == Committed(P, settings, win, U)
    IN  /\ gesture_log' = Logged(P, settings, win, U)
        /\ IF cmd = "none" THEN UNCHANGED <<last_commit, prev_commit>>
           ELSE /\ last_commit' = [cmd |-> cmd, at |-> now, window |-> win]
                /\ prev_commit' = last_commit

\* history: what a call of check_exit(type_) that saw board_state and returned E
\* means for the countdowns. A countdown of type_ begins with a call that sees
\* the kings in the pattern while exit_command[type_] is false; it is held as
\* long as every call of check_exit sees the kings in the pattern; it is broken
\* by a call of check_exit(type_) that sees them out of it during the countdown.
Polled(P, board_state, type_, E) ==
    LET running == P.exit_command[type_]
        within == now - P.last_exit_command_time < wait_between_commands
        in_pattern == kings_in_exit_position(board_state, type_)
        cd == countdown[type_]
        mine == IF ~running /\ in_pattern
                THEN [started |-> now, held |-> TRUE, aborted |-> FALSE]
                ELSE IF running
                THEN [cd EXCEPT !.held = @ /\ in_pattern,
                                !.aborted = @ \/ (within /\ ~in_pattern)]
                ELSE NoCountdown
    IN  /\ countdown' = [t \in ExitTypes |->
                            IF t = type_ THEN mine
                            ELSE [countdown[t] EXCEPT
                                     !.held = @ /\ kings_in_exit_position(board_state, t)]]
        /\ last_poll' = [type |-> type_, ret |-> E.ret,
                         counting |-> running \/ in_pattern,
                         elapsed |-> IF running \/ in_pattern THEN now - mine.started
                                     ELSE 0,
                         held |-> mine.held,
                         broke |-> running /\ within /\ ~in_pattern,
                         was_aborted |-> running /\ cd.aborted,
                         command_after |-> E.pico.exit_command[type_],
                         leds_off_after |-> E.led.last_message = Str("none"),
                         in_pattern |-> in_pattern]

\* lines 438-453: the events, then the poll of the application exit
MainPoll ==
    /\ loop_pc = "poll"
    /\ ~powered_off
    /\ Len(queue_to_usbtool) <= MaxWaiting
    /\ \E E \in {check_exit(PicoState, LedState, read_board(FALSE), "application",
                            now, TimeTime)} :
           /\ PicoBecomes(E.pico)
           /\ LedBecomes(E.led)
           /\ Polled(PicoState, read_board(FALSE), "application", E)
           /\ powered_off' = (E.ret = 2)
           /\ loop_pc' = IF E.ret = 2 THEN "poll" ELSE "window"
    /\ UNCHANGED <<window, game_settings, calibration, physical_board, shows,
                   last_commit, prev_commit, gesture_log, default_missing_piece>>

\* lines 446-447: the h key
KeyHome ==
    /\ loop_pc = "poll"
    /\ ~powered_off
    /\ window # "home"
    /\ window' = "home"
    /\ UNCHANGED <<on, last_command_time, last_exit_command_time, exit_command,
                   start_game, can_calibrate, game_settings, calibration, loop_pc,
                   powered_off, physical_board, shows, last_commit, prev_commit,
                   gesture_log,
                   last_poll, countdown, ledVars, default_missing_piece>>

\* lines 477-489: the home window
MainHome ==
    /\ loop_pc = "window"
    /\ window = "home"
    /\ Len(queue_to_usbtool) <= MaxWaiting
    /\ \E calibration_done \in BOOLEAN :
         \E L1 \in {IF calibration THEN set_leds(LedState, Str("setup"), FALSE)
                    ELSE LedState} :
         \E L2 \in {IF calibration /\ calibration_done
                    THEN set_leds(L1, Str("none"), FALSE) ELSE L1} :
         \E U \in {update(PicoState, L2, "home", read_board(FALSE), game_settings,
                          chessboard, now, TimeTime)} :
             /\ PicoBecomes(U.pico)
             /\ \/ \* no click
                   /\ LedBecomes(U.led)
                   /\ window' = U.win
                \/ \* lines 509-512: a click on the new game button
                   /\ LedBecomes(set_leds(U.led, Str("none"), FALSE))
                   /\ window' = "new game"
             /\ calibration' = IF U.flag THEN TRUE
                               ELSE IF calibration /\ calibration_done THEN FALSE
                               ELSE calibration
             /\ default_missing_piece' = IF U.flag THEN "." ELSE default_missing_piece
             /\ Commits(PicoState, game_settings, "home", U)
    /\ loop_pc' = "poll"
    /\ UNCHANGED <<game_settings, powered_off, physical_board, shows, last_poll,
                   countdown>>

\* lines 1208-1210 and 1564-1569: the new game window
MainNewGame ==
    /\ loop_pc = "window"
    /\ window = "new game"
    /\ Len(queue_to_usbtool) <= MaxWaiting
    /\ \E U \in {update(PicoState, LedState, "new game", read_board(FALSE),
                        game_settings, chessboard, now, TimeTime)} :
           /\ PicoBecomes(U.pico)
           /\ LedBecomes(U.led)
           /\ game_settings' = U.settings
           /\ \/ \* no click
                 window' = IF U.flag THEN "game" ELSE window
              \/ \* lines 1559-1560: a click on the back button
                 window' = IF U.flag THEN "game" ELSE "home"
              \/ \* lines 1562-1569: a click on the start button
                 window' = "game"
           /\ Commits(PicoState, game_settings, "new game", U)
    /\ loop_pc' = "poll"
    /\ UNCHANGED <<calibration, powered_off, physical_board, shows, last_poll,
                   countdown, default_missing_piece>>

\* lines 746-752: the game window; the engine may then start to think
MainGame ==
    /\ loop_pc = "window"
    /\ window = "game"
    /\ Len(queue_to_usbtool) <= MaxWaiting
    /\ \E U \in {update(PicoState, LedState, "game", read_board(FALSE),
                        game_settings, chessboard, now, TimeTime)} :
       \E E \in {check_exit(PicoState, LedState, read_board(FALSE), "game",
                            now, TimeTime)} :
       \E polls \in {~(exit_command["application"] \/ ~on)} :
           /\ PicoBecomes(U.pico)
           /\ LedBecomes(U.led)
           /\ window' = IF U.exit_state = 2 THEN "new game" ELSE window
           /\ IF polls THEN Polled(PicoState, read_board(FALSE), "game", E)
              ELSE UNCHANGED <<last_poll, countdown>>
           /\ Commits(PicoState, game_settings, "game", U)
           /\ IF U.exit_state # 0 THEN loop_pc' = "poll"
              ELSE loop_pc' \in {"poll", "thinking"}
    /\ UNCHANGED <<game_settings, calibration, powered_off, physical_board, shows,
                   default_missing_piece>>

\* lines 809-822 and 1044-1048: one pass of a loop that waits for the engine
MainThinking ==
    /\ loop_pc = "thinking"
    /\ Len(queue_to_usbtool) <= MaxWaiting
    /\ \E U \in {update(PicoState, LedState, "thinking",
                        read_board(game_settings.rotate180), game_settings,
                        chessboard, now, TimeTime)} :
           /\ PicoBecomes(U.pico)
           /\ LedBecomes(U.led)
           /\ Commits(PicoState, game_settings, "thinking", U)
           /\ IF U.flag THEN loop_pc' = "poll"
              ELSE loop_pc' \in {"poll", "thinking"}
    /\ UNCHANGED <<window, game_settings, calibration, powered_off, physical_board,
                   shows, last_poll, countdown, default_missing_piece>>

\* _usbtool takes a command off QUEUE_TO_USBTOOL (what it does with it is the
\* subject of the transport specification)
UsbtoolTakes ==
    /\ queue_to_usbtool # <<>>
    /\ queue_to_usbtool' = Tail(queue_to_usbtool)
    /\ UNCHANGED <<last_message, last_flash_message, flash_clock, counter,
                   default_missing_piece, picoVars>>

\* the pieces on the board are moved
BoardShowsUpTo(boards, max_shows) ==
    /\ shows < max_shows
    /\ \E b \in boards \ {physical_board} : physical_board' = b
    /\ shows' = shows + 1
    /\ UNCHANGED <<on, last_command_time, last_exit_command_time, exit_command,
                   start_game, can_calibrate, window, game_settings, calibration,
                   loop_pc, powered_off, last_commit, prev_commit, gesture_log, last_poll,
                   countdown, ledVars, default_missing_piece>>

BoardShows(boards) == BoardShowsUpTo(boards, MaxShows)

\* time passes
TickPico(ticks) ==
    /\ now < ticks * TickP
    /\ queue_to_usbtool = <<>>
    /\ now' = now + TickP

PicoInit(enabled) ==
    /\ on = enabled
    /\ last_command_time = -wait_between_commands
    /\ last_exit_command_time = -wait_between_commands
    /\ exit_command = [t \in ExitTypes |-> FALSE]
    /\ start_game = FALSE
    /\ can_calibrate = TRUE

\* the program outside the gesture specification
PicoIdle ==
    /\ PicoInit(FALSE)
    /\ window = "home"
    /\ game_settings = default_settings
    /\ calibration = FALSE
    /\ loop_pc = "poll"
    /\ powered_off = FALSE
    /\ physical_board = StartBoard
    /\ shows = 0
    /\ last_commit = NoCommit
    /\ prev_commit = NoCommit
    /\ gesture_log = NoGestures
    /\ last_poll = NoPoll
    /\ countdown = [t \in ExitTypes |-> NoCountdown]

(***************************************************************************)
(* _usbtool: the transport worker. One action per section of its loop body *)
(* (the places where the core's thread can run in between).                *)
(***************************************************************************)
\* no attempt to open the port yet
NoOpen == [attempted |-> FALSE, after |-> "none", rediscovered |-> FALSE]

UsbInit ==
    /\ upc = "connect"
    /\ first_connection = TRUE
    /\ serial_ok = FALSE
    /\ time_last_message_to_board = 0
    /\ message_to_board = <<>>
    /\ port_found = FALSE
    /\ dev_ok = TRUE
    /\ handle_ok = FALSE
    /\ sent = <<>>
    /\ wake_at = 0
    /\ fixed_port \in BOOLEAN
    /\ dev_in = <<>>
    /\ faults = 0
    /\ lines_read = <<>>
    /\ last_failure = "none"
    /\ last_open = NoOpen

\* "Try to (re)connect to board"
UsbtoolConnect ==
    /\ upc = "connect"
    /\ UNCHANGED <<time_last_message_to_board, message_to_board,
                   sent, fixed_port, dev_in, faults, dev_ok, lines_read>>
    /\ \/ /\ serial_ok
          /\ upc' = "store"
          /\ UNCHANGED <<first_connection, serial_ok, port_found, handle_ok, wake_at,
                         last_failure, last_open>>
       \/ \* find_port() returns None: continue
          /\ ~serial_ok /\ ~first_connection /\ ~fixed_port /\ ~dev_ok
          /\ port_found' = TRUE
          /\ handle_ok' = FALSE
          /\ UNCHANGED <<upc, first_connection, serial_ok, wake_at, last_failure,
                         last_open>>
       \/ \* serial.Serial(...) raises: sleep(1), continue
          /\ ~serial_ok /\ (first_connection \/ fixed_port) /\ ~dev_ok
          /\ upc' = "backoff"
          /\ wake_at' = now + reconnect_sleep
          /\ handle_ok' = FALSE
          /\ last_open' = [attempted |-> TRUE, after |-> last_failure,
                           rediscovered |-> FALSE]
          /\ last_failure' = "open"
          /\ port_found' = FALSE
          /\ UNCHANGED <<first_connection, serial_ok>>
       \/ \* the port opens
          /\ ~serial_ok /\ dev_ok
          /\ port_found' = IF first_connection \/ fixed_port THEN port_found ELSE TRUE
          /\ last_open' = [attempted |-> TRUE, after |-> last_failure,
                           rediscovered |-> ~first_connection /\ ~fixed_port]
          /\ last_failure' = "none"
          /\ serial_ok' = TRUE
          /\ first_connection' = FALSE
          /\ handle_ok' = TRUE
          /\ upc' = "store"
          /\ UNCHANGED wake_at

\* the end of time.sleep(1), with the variant that leaves the loop
UsbtoolWake_ends ==
    /\ upc = "backoff"
    /\ now >= wake_at
    /\ upc' = "ended"
    /\ UNCHANGED <<first_connection, serial_ok, time_last_message_to_board,
                   message_to_board, port_found, dev_ok, sent,
                   wake_at, fixed_port, dev_in, faults, handle_ok, lines_read,
                   last_failure, last_open>>

\* the end of time.sleep(1): continue
UsbtoolWake ==
    /\ upc = "backoff"
    /\ now >= wake_at
    /\ upc' = "connect"
    /\ UNCHANGED <<first_connection, serial_ok, time_last_message_to_board,
                   message_to_board, port_found, dev_ok, sent,
                   wake_at, fixed_port, dev_in, faults, handle_ok, lines_read,
                   last_failure, last_open>>

\* "Store message to board": one get_nowait, appended to the deque(maxlen=1)
usbtool_store(q, slot) ==
    IF q = <<>> THEN [queue |-> q, slot |-> slot, got |-> FALSE]
    ELSE [queue |-> Tail(q), slot |-> <<Head(q)>>, got |-> TRUE]

UsbtoolStore ==
    /\ upc = "store"
    /\ LET r == usbtool_store(queue_to_usbtool, message_to_board)
       IN  /\ queue_to_usbtool' = r.queue
           /\ message_to_board' = r.slot
    /\ upc' = "send"
    /\ UNCHANGED <<first_connection, serial_ok, time_last_message_to_board, port_found,
                   dev_ok, sent, wake_at, fixed_port, dev_in, faults, handle_ok, lines_read,
                   last_failure, last_open>>

\* line 466, with the variant that does not look at the time
send_due_unbuffered(slot, t, last) == Len(slot) > 0

\* line 466: len(message_to_board) and time.time() >= time_last_message_to_board + buffer
send_due(slot, t, last) == Len(slot) > 0 /\ t >= last + buffer_ms

\* "Send message to board"
UsbtoolSend ==
    /\ upc = "send"
    /\ UNCHANGED <<first_connection, dev_ok, wake_at,
                   fixed_port, dev_in, faults, handle_ok, lines_read, last_open>>
    /\ \/ \* nothing to send, or too early
          /\ ~send_due(message_to_board, TimeTime, time_last_message_to_board)
          /\ upc' = "read"
          /\ UNCHANGED <<serial_ok, time_last_message_to_board, message_to_board, sent,
                         port_found, last_failure>>
       \/ \* the write raises
          /\ send_due(message_to_board, TimeTime, time_last_message_to_board)
          /\ ~handle_ok
          /\ message_to_board' = <<>>
          /\ serial_ok' = FALSE
          /\ last_failure' = "write"
          /\ port_found' = FALSE
          /\ upc' = "connect"
          /\ UNCHANGED <<time_last_message_to_board, sent>>
       \/ \* the write succeeds
          /\ send_due(message_to_board, TimeTime, time_last_message_to_board)
          /\ handle_ok
          /\ UNCHANGED <<port_found, last_failure>>
          /\ message_to_board' = <<>>
          /\ time_last_message_to_board' = TimeTime
          /\ sent' = Append(sent, [data |-> message_to_board[1],
                                   waiting |-> Len(queue_to_usbtool),
                                   at |-> TimeTime])
          /\ upc' = "read"
          /\ UNCHANGED serial_ok

\* A line as the device sends it, up to its newline: n tokens separated by
\* single spaces, the last token of last_len characters, then the ending
\* (" \r", "\r" or nothing); frame holds the first 320 tokens as cell codes.
Endings == {"space-cr", "cr", "none"}

\* a token that lost characters to the strip
CutToken == 0 - 1

\* message_from_board[:-2]: the tokens left, and whether the last one was cut
strip_two(line) ==
    CASE line.ending = "space-cr" -> [n |-> line.n, cut |-> FALSE]
      [] line.ending = "cr" -> [n |-> line.n, cut |-> TRUE]
      [] line.ending = "none" /\ line.last_len >= 2 -> [n |-> line.n, cut |-> TRUE]
      [] OTHER -> [n |-> line.n - 1, cut |-> FALSE]

\* len(message_from_board.split(" ")) without the strip: the "\r" after the last
\* space is a token of its own
split_unstripped(line) == IF line.ending = "space-cr" THEN line.n + 1 ELSE line.n

\* the test of line 490, with the variant that leaves out the strip of line 489
line_accepted_unstripped(line) == split_unstripped(line) = frame_tokens

\* lines 489-490: len(message_from_board[:-2].split(" ")) == 320
line_accepted(line) == strip_two(line).n = frame_tokens

\* the item put on QUEUE_FROM_USBTOOL for an accepted line
stripped_frame(line) ==
    IF strip_two(line).cut
    THEN [line.frame EXCEPT ![63] = [@ EXCEPT ![5] = CutToken]]
    ELSE line.frame

\* "Read messages from board": a line of exactly 320 tokens is put on the queue;
\* reset_input_buffer() drops what else was waiting
UsbtoolRead ==
    /\ upc = "read"
    /\ upc' = "connect"
    /\ UNCHANGED <<first_connection, time_last_message_to_board, message_to_board,
                   dev_ok, sent, wake_at, fixed_port,
                   faults, handle_ok, last_open>>
    /\ \/ \* inWaiting() raises
          /\ ~handle_ok
          /\ serial_ok' = FALSE
          /\ last_failure' = "read"
          /\ port_found' = FALSE
          /\ UNCHANGED <<dev_in, queue_from_usbtool, lines_read>>
       \/ \* nothing is waiting
          /\ handle_ok /\ dev_in = <<>>
          /\ UNCHANGED <<serial_ok, dev_in, queue_from_usbtool, lines_read, port_found,
                         last_failure>>
       \/ \* a line is read
          /\ handle_ok /\ dev_in # <<>>
          /\ queue_from_usbtool' = IF line_accepted(Head(dev_in))
                                   THEN Append(queue_from_usbtool,
                                               stripped_frame(Head(dev_in)))
                                   ELSE queue_from_usbtool
          /\ lines_read' = Append(lines_read, Head(dev_in))
          /\ dev_in' = <<>>
          /\ UNCHANGED <<serial_ok, port_found, last_failure>>

(***************************************************************************)
(* Environment of the transport                                            *)
(***************************************************************************)
\* the device is unplugged or plugged in again, up to max_faults times
DeviceChangesUpTo(max_faults) ==
    /\ faults < max_faults
    /\ faults' = faults + 1
    /\ dev_ok' = ~dev_ok
    /\ handle_ok' = FALSE
    /\ dev_in' = <<>>
    /\ UNCHANGED <<upc, first_connection, serial_ok, time_last_message_to_board,
                   message_to_board, port_found, sent, wake_at,
                   fixed_port, lines_read, last_failure, last_open>>

DeviceChanges == DeviceChangesUpTo(MaxFaults)

\* the lines the device may send
Lines ==
    { l \in [n : (frame_tokens - 1)..(frame_tokens + MaxExtraTokens),
             last_len : {1, 2}, ending : Endings, frame : {EmptyFrame}] :
        l.last_len = 2 => l.ending = "none" }

\* the device sends one of `lines`, up to max_lines lines in all
DeviceSends(lines, max_lines) ==
    /\ dev_ok
    /\ Len(dev_in) < MaxPending
    /\ Len(queue_from_usbtool) + Len(dev_in) < MaxFrames
    /\ Len(lines_read) + Len(dev_in) < max_lines
    /\ \E l \in lines : dev_in' = Append(dev_in, l)
    /\ UNCHANGED <<upc, first_connection, serial_ok, time_last_message_to_board,
                   message_to_board, port_found, dev_ok, sent,
                   wake_at, fixed_port, faults, handle_ok, lines_read, last_failure,
                   last_open>>

\* the device sends a line
DeviceSendsLine == DeviceSends(Lines, MaxLines)

\* the LED requests the core makes in the transport specification
TransportRequests == {Str("all"), Str("none"), Str("corners")}

\* the core calls set_leds
CoreSetLeds ==
    /\ Len(queue_to_usbtool) < MaxCmds
    /\ \E m \in TransportRequests : LedBecomes(set_leds(LedState, m, FALSE))

TickTransport ==
    /\ now < MaxTicksT * TickT
    /\ now' = now + TickT

(***************************************************************************)
(* The transport specification: the core's LED requests against _usbtool   *)
(***************************************************************************)
InitTransport ==
    /\ AuxIdle
    /\ now = 0
    /\ LedInit
    /\ UsbInit
    /\ DecInit
    /\ DecLoad(NoFile)
    /\ GmIdle
    /\ PicoIdle

NextTransport ==
    \/ CoreSetLeds /\ UNCHANGED <<now, usbVars, decVars, gmVars, auxVars, picoVars>>
    \/ UsbtoolConnect /\ UNCHANGED <<now, ledVars, decVars, gmVars, auxVars, picoVars>>
    \/ UsbtoolWake /\ UNCHANGED <<now, ledVars, decVars, gmVars, auxVars, picoVars>>
    \/ UsbtoolStore
         /\ UNCHANGED <<now, last_message, last_flash_message, flash_clock, counter,
                        decVars, gmVars, auxVars, picoVars>>
    \/ UsbtoolSend /\ UNCHANGED <<now, ledVars, decVars, gmVars, auxVars, picoVars>>
    \/ UsbtoolRead
         /\ UNCHANGED <<now, ledVars, gmVars, auxVars, picoVars, data_history, data_history_i, board_fen,
                        code_mapping, default_missing_piece, calibration_file,
                        needs_calibration, received, voted>>
    \/ DeviceChanges /\ UNCHANGED <<now, ledVars, decVars, gmVars, auxVars, picoVars>>
    \/ TickTransport /\ UNCHANGED <<ledVars, usbVars, decVars, gmVars, auxVars, picoVars>>

SpecTransport == InitTransport /\ [][NextTransport]_vars

\* C1: every command written to the device was, when it was written, the newest
\* command the core had enqueued: a command overtaken by a later enqueue before its
\* write is dropped and never written.
C1_OnlyNewestWritten ==
    \A i \in 1..Len(sent) : sent[i].waiting = 0

(***************************************************************************)
(* The line specification: the device sends lines, the worker reads them   *)
(* and the core polls the decoder                                          *)
(***************************************************************************)
NextLines ==
    \/ UsbtoolConnect /\ UNCHANGED <<now, ledVars, decVars, gmVars, auxVars, picoVars>>
    \/ UsbtoolStore
         /\ UNCHANGED <<now, last_message, last_flash_message, flash_clock, counter,
                        decVars, gmVars, auxVars, picoVars>>
    \/ UsbtoolSend /\ UNCHANGED <<now, ledVars, decVars, gmVars, auxVars, picoVars>>
    \/ UsbtoolRead
         /\ UNCHANGED <<now, ledVars, gmVars, auxVars, picoVars, data_history, data_history_i, board_fen,
                        code_mapping, default_missing_piece, calibration_file,
                        needs_calibration, received, voted>>
    \/ DeviceSendsLine /\ UNCHANGED <<now, ledVars, decVars, gmVars, auxVars, picoVars>>
    \/ UsbReaderUpdate /\ UNCHANGED <<now, ledVars, usbVars, gmVars, auxVars, picoVars>>

SpecLines == InitTransport /\ [][NextLines]_vars

\* the items of the lines that have exactly 320 tokens once their last two
\* characters are stripped, in the order the lines were read
RECURSIVE WellFormedItems(_)
WellFormedItems(lines) ==
    IF lines = <<>> THEN <<>>
    ELSE (IF strip_two(Head(lines)).n = frame_tokens
          THEN <<stripped_frame(Head(lines))>> ELSE <<>>)
         \o WellFormedItems(Tail(lines))

\* C11: the items put on the device-to-core channel are exactly the lines that
\* have 320 tokens after the strip and the split, a line of any other token
\* count puts nothing; the ring holds only such items, and no snapshot is
\* computed before three of them were read.
C11_OnlyFramesOf320Tokens ==
    /\ received \o queue_from_usbtool = WellFormedItems(lines_read)
    /\ \A i \in 1..data_history_depth :
          data_history[i] = None \/ data_history[i] \in Range(WellFormedItems(lines_read))
    /\ voted.done => Len(WellFormedItems(lines_read)) >= data_history_depth

\* C11's case: lines of 319 and of 321 tokens were read and dropped, a line of
\* 320 tokens was read, and the core has polled since
C11_Witness ==
    /\ \E i \in 1..Len(lines_read) : strip_two(lines_read[i]).n = frame_tokens - 1
    /\ \E i \in 1..Len(lines_read) : strip_two(lines_read[i]).n = frame_tokens + 1
    /\ Len(received) = 1
    /\ data_history[1] = received[1]

(***************************************************************************)
(* The decoder specification: frames arrive, the core polls                *)
(***************************************************************************)
InitDecoder ==
    /\ AuxIdle
    /\ now = 0
    /\ LedInit
    /\ UsbInit /\ fixed_port = FALSE
    /\ DecInit
    /\ \E file \in CalibrationFiles : DecLoad(file)
    /\ GmIdle
    /\ PicoIdle

NextDecoder ==
    \/ FrameArrives /\ UNCHANGED <<now, ledVars, usbVars, gmVars, auxVars, picoVars>>
    \/ UsbReaderUpdate /\ UNCHANGED <<now, ledVars, usbVars, gmVars, auxVars, picoVars>>
    \/ IgnoreMissing /\ UNCHANGED <<now, ledVars, usbVars, gmVars, auxVars, picoVars>>

SpecDecoder == InitDecoder /\ [][NextDecoder]_vars

\* The cells on which the explored frames differ
VaryingCells == {0, 9, 63}

\* The orders in which three frames can lie in the ring
RingOrders == {p \in [1..3 -> 1..3] : \A a, b \in 1..3 : a # b => p[a] # p[b]}

\* C9: in every snapshot, a cell on which at least two of the three ring slots
\* hold the same code is decoded to that code's symbol (the missing-piece marker
\* if the code is unmapped), also for the same frames in any other slot order.
C9_MajorityVote ==
    voted.done =>
        \A cell \in VaryingCells : \A a, b \in 1..3 :
            (a # b /\ voted.history[a][cell] = voted.history[b][cell]) =>
                LET sym == MapGet(voted.mapping, voted.history[a][cell], voted.default)
                IN  /\ voted.board[cell] = sym
                    /\ \A p \in RingOrders :
                          most_common(cell_sample(
                              <<voted.history[p[1]], voted.history[p[2]],
                                voted.history[p[3]]>>,
                              cell, voted.mapping, voted.default)) = sym

\* C9's case: two slots agree on an unmapped code and the first slot holds a
\* code with another symbol
C9_Witness ==
    /\ voted.done
    /\ \E cell \in VaryingCells :
          /\ voted.history[2][cell] = voted.history[3][cell]
          /\ voted.history[2][cell] \notin DOMAIN voted.mapping
          /\ voted.history[1][cell] \in DOMAIN voted.mapping
          /\ voted.mapping[voted.history[1][cell]] # voted.default

\* the frames of s from the most recent backwards, each value once
RECURSIVE RecentDistinct(_, _)
RecentDistinct(s, seen) ==
    IF s = <<>> THEN <<>>
    ELSE LET x == s[Len(s)]
             rest == SubSeq(s, 1, Len(s) - 1)
         IN  IF x \in seen THEN RecentDistinct(rest, seen)
             ELSE <<x>> \o RecentDistinct(rest, seen \cup {x})

FirstN(s, n) == SubSeq(s, 1, Min(n, Len(s)))

\* C10 as stated: once three frames were received, the ring slots hold the three
\* most recent distinct frames.
C10_RingHoldsRecentDistinct ==
    (queue_from_usbtool = <<>> /\ Len(received) >= 3) =>
        Range(data_history) = Range(FirstN(RecentDistinct(received, {}), 3))

\* C10 as amended: once three frames were received, the ring slots hold the
\* three frames received last, equal ones included: frame number j lies in slot
\* (j - 1) mod 3, and the next frame will replace the oldest of the three.
C10_RingHoldsLastThree ==
    Len(received) >= 3 =>
        /\ \A j \in (Len(received) - 2)..Len(received) :
              data_history[((j - 1) % data_history_depth) + 1] = received[j]
        /\ data_history_i = Len(received) % data_history_depth

\* C10's case: more than three frames were received, the ring has wrapped, and
\* two of the last three frames are equal
C10_Witness ==
    /\ Len(received) >= 4
    /\ received[Len(received)] = received[Len(received) - 1]
    /\ received[Len(received)] # received[Len(received) - 2]
    /\ Cardinality(Range(received)) >= 3

\* the parts of a string between the separators sep
RECURSIVE SplitOn(_, _, _)
SplitOn(chars, sep, part) ==
    IF chars = <<>> THEN <<part>>
    ELSE IF Head(chars) = sep THEN <<part>> \o SplitOn(Tail(chars), sep, <<>>)
    ELSE SplitOn(Tail(chars), sep, Append(part, Head(chars)))

\* C18: every snapshot data_to_fen has produced has exactly 8 ranks separated by
\* "/", each rank describes exactly 8 squares and has no two adjacent digits, and
\* its squares are the voted symbols of the rank's row, rank 8 first, file a first
C18_SnapshotWellFormed ==
    voted.done =>
        \E ranks \in {SplitOn(board_fen, "/", <<>>)} :
            /\ Len(ranks) = 8
            /\ \A r \in 1..8 :
                  /\ \A i \in 1..(Len(ranks[r]) - 1) :
                        ~(isdigit(ranks[r][i]) /\ isdigit(ranks[r][i + 1]))
                  /\ ExpandRow(ranks[r]) = [c \in 1..8 |-> voted.board[(r - 1) * 8 + c - 1]]

\* C18's case: with the marker "N", pieces are voted on a8, b7 and h1, so that
\* runs of empty squares lie before and after a piece
C18_Witness ==
    /\ voted.done
    /\ voted.default = "N"
    /\ voted.board[0] # "."
    /\ voted.board[9] # "."
    /\ voted.board[63] # "."
    /\ \E cell \in VaryingCells : voted.board[cell] = "N"

(***************************************************************************)
(* The move inference specification: one call of get_moves for every rule  *)
(* engine, logical board and physical field explored                       *)
(***************************************************************************)
InitMoves ==
    /\ AuxIdle
    /\ now = 0
    /\ LedInit
    /\ UsbInit /\ fixed_port = FALSE
    /\ DecInit /\ DecLoad(NoFile)
    /\ engine \in Engines
    /\ board \in {<<>>, <<1>>}
    /\ \E f \in Fields : fen \in {<<f>>, <<f, "w">>}
    /\ gm_pc = "idle"
    /\ copy_board = <<>>
    /\ moves = <<>>
    /\ legal_moves2 = <<>>
    /\ move_i = 0
    /\ move2_i = 0
    /\ gm_result = NotYet
    /\ board_before = board
    /\ n_generated = 0
    /\ n_pushed = 0
    /\ PicoIdle

NextMoves ==
    \/ GM_Call /\ UNCHANGED <<now, ledVars, usbVars, decVars, picoVars, auxVars>>
    \/ GM_Single /\ UNCHANGED <<now, ledVars, usbVars, decVars, picoVars, auxVars>>
    \/ GM_Double /\ UNCHANGED <<now, ledVars, usbVars, decVars, picoVars, auxVars>>
    \/ GM_Reply /\ UNCHANGED <<now, ledVars, usbVars, decVars, picoVars, auxVars>>

SpecMoves == InitMoves /\ [][NextMoves]_vars

\* the legal moves of the logical position whose application gives the physical field
SingleHits == {i \in 1..engine.n0 : engine.f1[i] = physical_field}

\* the pairs (move, reply) of legal plies whose application gives the physical field
DoubleHits == {p \in (1..engine.n0) \X (1..MaxMoves) :
                  p[2] <= engine.n1[p[1]] /\ engine.f2[p] = physical_field}

Differs == engine.f0 # physical_field

\* C5: get_moves returns a one-move list exactly when the physical field differs
\* from the logical board's and some legal move reproduces it; the move is the
\* first such move in generation order (so one move is preferred to two).
C5_SingleMove ==
    gm_pc = "done" =>
        /\ (gm_result.kind = "return" /\ Len(gm_result.moves) = 1)
              <=> (Differs /\ SingleHits # {})
        /\ (Differs /\ SingleHits # {}) =>
              gm_result = Returned(<<CHOOSE i \in SingleHits : \A j \in SingleHits : i <= j>>)

\* C5's case: a single move is returned although an earlier pair of moves and a
\* later single move reproduce the field too
C5_Witness ==
    /\ gm_pc = "done"
    /\ gm_result = Returned(<<1>>)
    /\ Cardinality(SingleHits) > 1
    /\ DoubleHits # {}

\* C6: a two-move list is returned only when no single legal move reproduces the
\* physical field; its moves are legal in turn, give the physical field, and are
\* the first such pair in generation order.
C6_DoubleMove ==
    (gm_pc = "done" /\ gm_result.kind = "return" /\ Len(gm_result.moves) = 2) =>
        LET m1 == gm_result.moves[1]
            m2 == gm_result.moves[2]
        IN  /\ Differs
            /\ SingleHits = {}
            /\ m1 \in 1..engine.n0
            /\ m2 \in 1..engine.n1[m1]
            /\ engine.f2[<<m1, m2>>] = physical_field
            /\ \A p \in DoubleHits : m1 < p[1] \/ (m1 = p[1] /\ m2 <= p[2])

\* C6's case: the pair returned is not the first pair tried, and a later pair
\* reproduces the field too
C6_Witness ==
    /\ gm_pc = "done"
    /\ gm_result.kind = "return"
    /\ Len(gm_result.moves) = 2
    /\ gm_result.moves # <<1, 1>>
    /\ Cardinality(DoubleHits) > 1

\* C7: InvalidMove is raised exactly when the physical field differs from the
\* logical board's and no one or two legal plies reproduce it (never when the
\* fields are equal); the logical board is the same before and after every call,
\* and when InvalidMove is raised every push on the copy has been undone.
C7_InvalidMove ==
    /\ board = board_before
    /\ gm_pc = "done" =>
          /\ gm_result = Raised <=> (Differs /\ SingleHits = {} /\ DoubleHits = {})
          /\ gm_result = Raised => copy_board = board

\* C7's case: InvalidMove after a search that pushed first moves and replies
C7_Witness ==
    /\ gm_pc = "done"
    /\ gm_result = Raised
    /\ n_pushed > engine.n0 + engine.n0
    /\ board # <<>>

\* C8: when the physical field equals the logical board's field, get_moves
\* returns the empty list and has generated no legal move and pushed none.
C8_NoMoveNoSearch ==
    (gm_pc = "done" /\ ~Differs) =>
        gm_result = Returned(<<>>) /\ n_generated = 0 /\ n_pushed = 0

\* C8's case: the fields are equal although legal moves exist, one of which
\* would give the same field again
C8_Witness ==
    /\ gm_pc = "done"
    /\ ~Differs
    /\ engine.n0 > 0
    /\ SingleHits # {}

(***************************************************************************)
(* The gesture specification: the main loop polls the gesture decoder      *)
(* while the pieces are moved and time passes                              *)
(***************************************************************************)
\* run.py lines 426-435: the objects are made, then the two start-up LED commands
InitPico ==
    /\ AuxIdle
    /\ now = 0
    /\ LET L0 == [last_message |-> NoMsg, last_flash_message |-> NoMsg,
                  flash_clock |-> 0, counter |-> 0, queue |-> <<>>]
           L2 == set_leds(set_leds(L0, Str("all"), FALSE), Str("none"), FALSE)
       IN  /\ last_message = L2.last_message
           /\ last_flash_message = L2.last_flash_message
           /\ flash_clock = L2.flash_clock
           /\ counter = L2.counter
           /\ queue_to_usbtool = L2.queue
    /\ UsbInit /\ fixed_port = FALSE
    /\ \E enabled \in BOOLEAN :
          /\ PicoInit(enabled)
          /\ DecInitWith(IF enabled THEN "N" ELSE ".")
    /\ DecLoad(LearnedFile)
    /\ GmIdle
    /\ window = "home"
    /\ game_settings = default_settings
    /\ calibration = needs_calibration
    /\ loop_pc = "poll"
    /\ powered_off = FALSE
    /\ physical_board = StartBoard
    /\ shows = 0
    /\ last_commit = NoCommit
    /\ prev_commit = NoCommit
    /\ gesture_log = NoGestures
    /\ last_poll = NoPoll
    /\ countdown = [t \in ExitTypes |-> NoCountdown]

decOther == <<queue_from_usbtool, data_history, data_history_i, board_fen, code_mapping,
              calibration_file, needs_calibration, received, voted>>

NextPico ==
    \/ MainPoll /\ UNCHANGED <<now, usbVars, decOther, gmVars, auxVars>>
    \/ KeyHome /\ UNCHANGED <<now, usbVars, decOther, gmVars, auxVars>>
    \/ MainHome /\ UNCHANGED <<now, usbVars, decOther, gmVars, auxVars>>
    \/ MainNewGame /\ UNCHANGED <<now, usbVars, decOther, gmVars, auxVars>>
    \/ MainGame /\ UNCHANGED <<now, usbVars, decOther, gmVars, auxVars>>
    \/ MainThinking /\ UNCHANGED <<now, usbVars, decOther, gmVars, auxVars>>
    \/ UsbtoolTakes /\ UNCHANGED <<now, usbVars, decOther, gmVars, auxVars>>
    \/ BoardShows(GestureBoards) /\ UNCHANGED <<now, usbVars, decOther, gmVars, auxVars>>
    \/ TickPico(MaxTicksP) /\ UNCHANGED <<ledVars, usbVars, decVars, gmVars, auxVars, picoVars>>

SpecPico == InitPico /\ [][NextPico]_vars

(***************************************************************************)
(* The exit specification: the same main loop while the kings are moved in  *)
(* and out of the exit patterns                                            *)
(***************************************************************************)
NextExit ==
    \/ MainPoll /\ UNCHANGED <<now, usbVars, decOther, gmVars, auxVars>>
    \/ KeyHome /\ UNCHANGED <<now, usbVars, decOther, gmVars, auxVars>>
    \/ MainHome /\ UNCHANGED <<now, usbVars, decOther, gmVars, auxVars>>
    \/ MainNewGame /\ UNCHANGED <<now, usbVars, decOther, gmVars, auxVars>>
    \/ MainGame /\ UNCHANGED <<now, usbVars, decOther, gmVars, auxVars>>
    \/ MainThinking /\ UNCHANGED <<now, usbVars, decOther, gmVars, auxVars>>
    \/ UsbtoolTakes /\ UNCHANGED <<now, usbVars, decOther, gmVars, auxVars>>
    \/ BoardShows(ExitBoards) /\ UNCHANGED <<now, usbVars, decOther, gmVars, auxVars>>
    \/ TickPico(MaxTicksE) /\ UNCHANGED <<ledVars, usbVars, decVars, gmVars, auxVars, picoVars>>

SpecExit == InitPico /\ [][NextExit]_vars

\* C2: once a gesture command is committed at time t, no further gesture command
\* is committed before t + wait_between_commands, in whatever window.
C2_Debounce ==
    prev_commit.cmd # "none" =>
        last_commit.at - prev_commit.at >= wait_between_commands

\* The same for the commands committed by the windows that compare the time
\* with last_command_time (new game, game and thinking).
C2_DebounceOutsideHome ==
    (prev_commit.cmd # "none" /\ last_commit.window # "home") =>
        last_commit.at - prev_commit.at >= wait_between_commands

\* C3 as stated: with the kings held in the exit pattern from the poll at time t
\* that began a countdown, a poll returns 2 once wait_between_commands has
\* elapsed since t and 1 before.
C3_ConfirmAfterDebounceWindow ==
    (on /\ last_poll.counting /\ last_poll.held) =>
        last_poll.ret = IF last_poll.elapsed >= wait_between_commands THEN 2 ELSE 1

\* C3 as the code has it: with the gesture decoder on and the kings held in the
\* exit pattern from the poll at time t that began a countdown, a poll returns 2
\* once 5000 ms have elapsed since t and 1 before.
C3_ConfirmAfterFiveSeconds ==
    (on /\ last_poll.counting /\ last_poll.held) =>
        last_poll.ret = IF last_poll.elapsed >= 5000 THEN 2 ELSE 1

\* C3's case: the application exit is confirmed with the kings held throughout
C3_Witness ==
    /\ powered_off
    /\ last_poll.type = "application"
    /\ last_poll.ret = 2
    /\ last_poll.held
    /\ last_poll.elapsed >= 5000

MaxPasses == 2          \* calibration passes in a behaviour
MaxCrashes == 1         \* crashes of the program in a behaviour
MaxFrameChanges == 1    \* times the pieces on the board are changed

picoRest == <<on, last_command_time, last_exit_command_time, exit_command, start_game,
              can_calibrate, window, game_settings, loop_pc, powered_off,
              physical_board, shows, last_commit, prev_commit, gesture_log, last_poll, countdown>>

\* read_board() of the home window: UsbReader.update over the waiting frames,
\* with the code map and the board_fen the loop body has reached
CalReadBoard(mapping, fen_now) ==
    \E U \in {update_loop([history |-> data_history, i |-> data_history_i,
                           changed |-> FALSE], queue_from_usbtool)} :
        /\ data_history' = U.history
        /\ data_history_i' = U.i
        /\ queue_from_usbtool' = <<>>
        /\ board_fen' = IF U.changed /\ U.i >= 0
                        THEN data_to_fen(U.history, mapping, default_missing_piece)
                        ELSE fen_now

\* run.py lines 477-489, the home window's loop body, up to the place where
\* do_calibration opens the calibration file for writing when a pass is due
CalHome ==
    /\ cal_pc = "running"
    /\ Len(queue_to_usbtool) <= MaxWaiting
    /\ IF calibration
       THEN \E A \in {calibration_append(calibration_samples, calibration_data_history_i,
                                         data_history, data_history_i)} :
              /\ calibration_samples' = A.samples
              /\ calibration_data_history_i' = A.cdi
              /\ cal_call' = [called |-> TRUE, active |-> calibration, setup |-> new_setup,
                              appended |-> A.appended, len_after |-> Len(A.samples),
                              pass |-> enough_samples(A.samples),
                              returned |-> IF enough_samples(A.samples)
                                           THEN "pending" ELSE "False",
                              len_at_return |-> Len(A.samples),
                              armings |-> cal_call.armings,
                              collected |-> Collected(A, Len(calibration_samples)),
                              used |-> IF enough_samples(A.samples)
                                       THEN Collected(A, Len(calibration_samples))
                                       ELSE cal_call.used,
                              used_for |-> IF enough_samples(A.samples)
                                           THEN SampleTag(cal_call.armings, new_setup,
                                                          passes)
                                           ELSE cal_call.used_for]
              /\ IF enough_samples(A.samples)
                 THEN \* do_calibration: add_mapping works on self.calibration_mapping
                      \* itself unless new_setup; open(path, "wb") truncates the file
                      /\ cal_pc' = "dump"
                      /\ file_before' = calibration_file
                      /\ calibration_file' = TornFile
                      /\ calibration_mapping' =
                            IF new_setup THEN calibration_mapping
                            ELSE do_calibration(A.samples, calibration_mapping, FALSE)
                      /\ UNCHANGED <<ledVars, queue_from_usbtool, data_history,
                                     data_history_i, board_fen>>
                 ELSE /\ LedBecomes(set_leds(LedState, Str("setup"), FALSE))
                      /\ CalReadBoard(code_mapping, board_fen)
                      /\ UNCHANGED <<cal_pc, file_before, calibration_file,
                                     calibration_mapping>>
       ELSE /\ CalReadBoard(code_mapping, board_fen)
            /\ UNCHANGED <<calibration_samples, calibration_data_history_i, cal_call,
                           cal_pc, file_before, calibration_file, calibration_mapping,
                           ledVars>>
    /\ UNCHANGED <<calibration, new_setup, device_frame, frame_changes, started, passes,
                   crashes, code_mapping, needs_calibration, default_missing_piece,
                   received, voted, picoRest, led_call, game>>

\* the rest of the loop body of a pass: pickle.dump writes the file to its end,
\* calibration() clears the samples, loads the file and returns True
CalDumpCompletes ==
    /\ cal_pc = "dump"
    /\ \E M \in {do_calibration(calibration_samples, calibration_mapping, new_setup)} :
       \E Ld \in {load_piece_codes(FileOf(calibration_data(M)))} :
          /\ calibration_file' = Ld.file
          /\ calibration_mapping' = M
          /\ code_mapping' = Ld.mapping
          /\ CalReadBoard(Ld.mapping,
                          data_to_fen(data_history, Ld.mapping, default_missing_piece))
    /\ needs_calibration' = FALSE
    /\ calibration_samples' = <<>>
    /\ calibration_data_history_i' = NoneInt
    /\ cal_call' = [cal_call EXCEPT !.returned = "True",
                                    !.len_at_return = Len(calibration_samples'),
                                    !.collected = <<>>]
    /\ LedBecomes(set_leds(set_leds(LedState, Str("setup"), FALSE), Str("none"), FALSE))
    /\ calibration' = FALSE
    /\ cal_pc' = "running"
    /\ passes' = passes + 1
    /\ UNCHANGED <<new_setup, device_frame, frame_changes, file_before, started, crashes,
                   default_missing_piece, received, voted, picoRest, led_call, game>>

\* run.py lines 522-532: a click on "add piece" (setup FALSE) or on "new setup"
CalClick(setup) ==
    /\ cal_pc = "running"
    /\ passes < MaxPasses
    /\ ~calibration
    /\ calibration' = TRUE
    /\ new_setup' = setup
    /\ UNCHANGED <<calibration_samples, calibration_data_history_i, calibration_mapping,
                   cal_pc, device_frame, frame_changes, file_before, cal_call, started,
                   passes, crashes, ledVars, decVars, picoRest, led_call, game>>

\* _usbtool puts the board's frame on QUEUE_FROM_USBTOOL
CalFrameArrives ==
    /\ cal_pc = "running"
    /\ queue_from_usbtool = <<>>
    /\ queue_from_usbtool' = <<device_frame>>
    /\ UNCHANGED <<data_history, data_history_i, board_fen, code_mapping,
                   default_missing_piece, calibration_file, needs_calibration,
                   received, voted, calVars, ledVars, picoVars, led_call, game>>

\* the pieces on the board are changed (between calibrations)
CalBoardChanges ==
    /\ frame_changes < MaxFrameChanges
    /\ ~calibration
    /\ \E f \in Frames \ {device_frame} : device_frame' = f
    /\ frame_changes' = frame_changes + 1
    /\ UNCHANGED <<calibration_samples, calibration_data_history_i, calibration_mapping,
                   new_setup, cal_pc, file_before, cal_call, started, passes, crashes,
                   ledVars, decVars, picoVars, led_call, game>>

\* the program is killed or the machine loses power
CalCrash ==
    /\ cal_pc \in {"running", "dump"}
    /\ crashes < MaxCrashes
    /\ crashes' = crashes + 1
    /\ cal_pc' = IF cal_pc = "dump" THEN "crashed in dump" ELSE "crashed"
    /\ UNCHANGED <<calibration_samples, calibration_data_history_i, calibration_mapping,
                   new_setup, device_frame, frame_changes, file_before, cal_call,
                   started, passes, ledVars, decVars, picoVars, led_call, game>>

\* what the start of the program makes of the calibration file it finds
StartOn(file) ==
    [from |-> IF ~file.exists THEN "missing" ELSE IF file.torn THEN "torn" ELSE "file",
     raised |-> load_piece_codes(file).raised,
     only_zero |-> DOMAIN load_piece_codes(file).mapping = {ZeroCode},
     needs_calibration |-> load_piece_codes(file).needs_calibration]

\* the program is started again: run.py lines 393 and 426-435 with
\* UsbReader.__init__ and LedManager.__init__
CalRestart ==
    /\ cal_pc \in {"crashed", "crashed in dump"}
    /\ started' = StartOn(calibration_file)
    /\ \E Ld \in {load_piece_codes(calibration_file)} :
         IF Ld.raised
         THEN /\ cal_pc' = "failed"
              /\ UNCHANGED <<calibration_samples, calibration_data_history_i,
                             calibration_mapping, new_setup, cal_call, ledVars,
                             queue_from_usbtool, data_history, data_history_i, board_fen,
                             code_mapping, calibration_file, needs_calibration,
                             calibration>>
         ELSE /\ cal_pc' = "running"
              /\ calibration_samples' = <<>>
              /\ calibration_data_history_i' = NoneInt
              /\ calibration_mapping' = EmptyCalibrationMapping
              /\ new_setup' = FALSE
              /\ cal_call' = NoCall
              /\ queue_from_usbtool' = <<>>
              /\ data_history' = <<None, None, None>>
              /\ data_history_i' = -data_history_depth
              /\ board_fen' = start_board_fen
              /\ code_mapping' = Ld.mapping
              /\ calibration_file' = Ld.file
              /\ needs_calibration' = Ld.needs_calibration
              /\ calibration' = Ld.needs_calibration
              /\ LedBecomes(set_leds(set_leds(
                     [last_message |-> NoMsg, last_flash_message |-> NoMsg,
                      flash_clock |-> 0, counter |-> 0, queue |-> <<>>],
                     Str("all"), FALSE), Str("none"), FALSE))
    /\ UNCHANGED <<device_frame, frame_changes, file_before, passes, crashes,
                   default_missing_piece, received, voted, picoRest, led_call, game>>

\* the calibration files the program may find at its first start
StartFiles == {NoFile, LearnedFile, TornFile}

InitCalibration ==
    /\ now = 0
    /\ UsbInit /\ fixed_port = FALSE
    /\ GmIdle
    /\ PicoInit(FALSE)
    /\ window = "home"
    /\ game_settings = default_settings
    /\ loop_pc = "poll"
    /\ powered_off = FALSE
    /\ physical_board = StartBoard
    /\ shows = 0
    /\ last_commit = NoCommit
    /\ prev_commit = NoCommit
    /\ gesture_log = NoGestures
    /\ last_poll = NoPoll
    /\ countdown = [t \in ExitTypes |-> NoCountdown]
    /\ led_call = NoLedCall
    /\ game = NoGame
    /\ CalInit
    /\ device_frame \in Frames
    /\ DecInit
    /\ \E file \in StartFiles :
          /\ started = StartOn(file)
          /\ IF StartOn(file).raised
             THEN /\ cal_pc = "failed"
                  /\ calibration_file = file
                  /\ code_mapping = <<>>
                  /\ needs_calibration = FALSE
                  /\ calibration = FALSE
                  /\ LedInit
             ELSE /\ cal_pc = "running"
                  /\ DecLoad(file)
                  /\ calibration = needs_calibration
                  /\ \E L \in {set_leds(set_leds(
                                 [last_message |-> NoMsg, last_flash_message |-> NoMsg,
                                  flash_clock |-> 0, counter |-> 0, queue |-> <<>>],
                                 Str("all"), FALSE), Str("none"), FALSE)} :
                        /\ last_message = L.last_message
                        /\ last_flash_message = L.last_flash_message
                        /\ flash_clock = L.flash_clock
                        /\ counter = L.counter
                        /\ queue_to_usbtool = L.queue

NextCalibration ==
    \/ CalHome /\ UNCHANGED <<now, usbVars, gmVars>>
    \/ CalDumpCompletes /\ UNCHANGED <<now, usbVars, gmVars>>
    \/ CalClick(FALSE) /\ UNCHANGED <<now, usbVars, gmVars>>
    \/ CalClick(TRUE) /\ UNCHANGED <<now, usbVars, gmVars>>
    \/ CalFrameArrives /\ UNCHANGED <<now, usbVars, gmVars>>
    \/ CalBoardChanges /\ UNCHANGED <<now, usbVars, gmVars>>
    \/ CalCrash /\ UNCHANGED <<now, usbVars, gmVars>>
    \/ CalRestart /\ UNCHANGED <<now, usbVars, gmVars>>
    \/ UsbtoolTakes /\ UNCHANGED <<now, usbVars, decOther, gmVars, auxVars>>

SpecCalibration == InitCalibration /\ [][NextCalibration]_vars

\* the list of the j-th kind in a calibration file (an empty dict has none)
ListOf(file, j) == IF j <= Len(file.data) THEN file.data[j] ELSE <<>>

IsPrefix(a, b) == Len(a) <= Len(b) /\ SubSeq(b, 1, Len(a)) = a

NoDuplicates(seq) == \A i, j \in 1..Len(seq) : i # j => seq[i] # seq[j]

KindIndexes == 1..Len(code_mapping_order)

\* C12: when an add-piece pass (new_setup false) has returned, the file holds,
\* for every kind, the codes it held before the pass, in their order, as a
\* prefix of the kind's list -- also in a run that started from a file
C12_AddPieceKeepsPersisted ==
    (cal_call.returned = "True" /\ ~cal_call.setup) =>
        \A j \in KindIndexes :
            IsPrefix(ListOf(file_before, j), ListOf(calibration_file, j))

\* C13: a crash while do_calibration writes the file leaves either the file as
\* it was before the pass or the complete new file
C13_AtomicPersistence ==
    cal_pc = "crashed in dump" =>
        calibration_file \in
            {file_before,
             FileOf(calibration_data(do_calibration(calibration_samples,
                                                    calibration_mapping, new_setup)))}

\* C14: a start of the program that finds the calibration file missing or
\* partly written does not raise, leaves a code map of the zero entry only and
\* sets needs_calibration
C14_StartupTolerant ==
    started.from \in {"missing", "torn"} =>
        /\ ~started.raised
        /\ started.only_zero
        /\ started.needs_calibration

\* C15: after any passes, no list of the calibration file holds the all-zero
\* code or the same code twice
C15_PersistedListsClean ==
    (passes > 0 /\ ~calibration_file.torn) =>
        \A j \in KindIndexes :
            /\ ZeroCode \notin Range(ListOf(calibration_file, j))
            /\ NoDuplicates(ListOf(calibration_file, j))

\* a second add-piece pass of a run has met the codes of the first again
C15_Witness ==
    /\ passes = 2
    /\ crashes = 0
    /\ cal_call.returned = "True"
    /\ ~cal_call.setup
    /\ calibration_file = file_before
    /\ \E j \in KindIndexes : ListOf(calibration_file, j) # <<>>

\* C16: the sample set never holds more than calibration_samples_n frames; it
\* grows only in a step of UsbReader.calibration, called while calibration is
\* active; the call runs the pass exactly when the set has reached
\* calibration_samples_n; the set is empty when the call returns True
C16_FifteenSamples ==
    /\ [](/\ Len(calibration_samples) <= calibration_samples_n
          /\ cal_call.called => cal_call.active
          /\ cal_call.called => (cal_call.pass <=> cal_call.len_after = calibration_samples_n)
          /\ cal_call.returned = "True" => cal_call.len_at_return = 0)
    /\ [][(calibration_samples' # calibration_samples /\ calibration_samples' # <<>>)
            => (calibration /\ cal_call'.called /\ cal_call'.appended)]_vars

C16_Witness ==
    /\ cal_call.returned = "True"
    /\ cal_call.len_after = calibration_samples_n
    /\ calibration_samples = <<>>
    /\ ~calibration

\* C17: a code in the lists of several kinds is mapped to the first of them in
\* code_mapping_order; the zero code is mapped to the empty square
C17_FirstKindWins ==
    (cal_pc = "running" /\ ~calibration_file.torn) =>
        /\ code_mapping[ZeroCode] = "."
        /\ \A j \in KindIndexes :
             \A code \in Range(ListOf(calibration_file, j)) \ {ZeroCode} :
                \A h \in 1..(j - 1) :
                    code \in Range(ListOf(calibration_file, h)) =>
                        code_mapping[code] # code_mapping_order[j]

(***************************************************************************)
(* The LED call specification: calls of LedManager.set_leds and of          *)
(* LedManager.squares2led with requests of every form, in any order         *)
(***************************************************************************)
\* the squares of the explored requests
CallSquares == {<<"a", "1">>, <<"a", "8">>, <<"h", "1">>, <<"h", "8">>,
                <<"e", "2">>, <<"e", "4">>}

Corners == <<<<"a", "1">>, <<"a", "8">>, <<"h", "1">>, <<"h", "8">>>>

\* lists of squares: empty, of one square, of two squares (also the same
\* square twice) and the four corners
SquareLists ==
    {<<>>, Corners} \cup {<<q>> : q \in CallSquares}
        \cup {<<q1, q2>> : q1 \in CallSquares, q2 \in CallSquares}

\* a square as a str, and the move strings (from and to square differ)
SquareStrings ==
    {<<q>> : q \in CallSquares}
        \cup {m \in {<<q1, q2>> : q1 \in CallSquares, q2 \in CallSquares} :
                   m[1] # m[2]}

\* the requests of the explored set_leds calls
SetLedsRequests ==
    {Str(name) : name \in {"all", "none", "corners", "thinking", "setup"}}
        \cup {Sqs(Corners), Sqs(<<<<"e", "2">>>>),
              Sqs(<<<<"e", "2">>, <<"e", "4">>>>), Sqs(<<<<"e", "4">>, <<"e", "2">>>>),
              SquareStr(<<<<"e", "2">>>>), SquareStr(<<<<"e", "2">>, <<"e", "4">>>>)}

\* a call of led_manager.set_leds(message, rotate180)
SetLedsCall ==
    /\ Len(queue_to_usbtool) <= MaxWaiting
    /\ \E message \in SetLedsRequests, rotate180 \in BOOLEAN :
       \E L \in {set_leds(LedState, message, rotate180)} :
          /\ LedBecomes(L)
          /\ led_call' = [op |-> "set_leds", message |-> message,
                          rotate180 |-> rotate180,
                          prev |-> led_call.requested, requested |-> message,
                          enqueued |-> Len(L.queue) - Len(queue_to_usbtool),
                          leds |-> IF L.queue = <<>> THEN <<>>
                                   ELSE L.queue[Len(L.queue)],
                          last_frame |-> IF Len(L.queue) > Len(queue_to_usbtool)
                                         THEN L.queue[Len(L.queue)]
                                         ELSE led_call.last_frame]

\* a call of LedManager.squares2led(squares, rotate180): a static method, its
\* calls are explored before the first set_leds call
Squares2LedCall ==
    /\ led_call.requested = NoMsg
    /\ \E rotate180 \in BOOLEAN :
       \E message \in {Sqs(q) : q \in SquareLists}
                        \cup {SquareStr(q) : q \in SquareStrings} :
          led_call' = [op |-> "squares2led", message |-> message,
                       rotate180 |-> rotate180,
                       prev |-> led_call.prev, requested |-> led_call.requested,
                       enqueued |-> 0,
                       leds |-> IF message.kind = "str"
                                THEN squares2led_str(message.squares, rotate180)
                                ELSE squares2led(message.squares, rotate180),
                       last_frame |-> led_call.last_frame]
    /\ UNCHANGED ledVars

InitLeds ==
    /\ CalIdle
    /\ led_call = NoLedCall
    /\ game = NoGame
    /\ now = 0
    /\ LedInit
    /\ UsbInit /\ fixed_port = FALSE
    /\ DecInit
    /\ DecLoad(NoFile)
    /\ GmIdle
    /\ PicoIdle

NextLeds ==
    \/ SetLedsCall /\ UNCHANGED <<now, usbVars, decVars, gmVars, picoVars, calVars, game>>
    \/ Squares2LedCall /\ UNCHANGED <<now, usbVars, decVars, gmVars, picoVars, calVars, game>>
    \/ UsbtoolTakes /\ UNCHANGED <<now, usbVars, decOther, gmVars, auxVars>>

SpecLeds == InitLeds /\ [][NextLeds]_vars

\* C19: a set_leds call whose request equals the request of the call before it
\* puts nothing on the queue; a call whose request differs from it (or the first
\* call) puts exactly one frame there, the frame of the request
C19_ChangeSuppression ==
    led_call.op = "set_leds" =>
        IF led_call.message = led_call.prev
        THEN led_call.enqueued = 0
        ELSE /\ led_call.enqueued = 1
             /\ led_call.leds = LedBytes(led_call.message, led_call.rotate180)

\* C19's case: the same list of squares was requested twice in a row
C19_Witness ==
    /\ led_call.op = "set_leds"
    /\ led_call.message = led_call.prev
    /\ led_call.message.kind = "list"
    /\ led_call.enqueued = 0

\* bit c of the value v
BitSet(v, c) == (v \div Pow2(c)) % 2 = 1

\* the LED row and column the claim gives a square
LedRow(square, rotate180) ==
    IF rotate180 THEN IntOf(square[2]) - 1 ELSE 8 - IntOf(square[2])
LedColumn(square, rotate180) ==
    IF rotate180 THEN 7 - IndexOf(COLUMNS_LETTERS, square[1])
    ELSE IndexOf(COLUMNS_LETTERS, square[1])

\* C20: squares2led returns 8 values in 0..255; bit c of value r is set exactly
\* when a requested square lies in LED row r and column c; the four corner
\* squares give the frame of the pattern "corners"
C20_OneBitPerSquare ==
    /\ led_call.op = "squares2led" =>
          /\ Len(led_call.leds) = 8
          /\ \A r \in 0..7 :
                /\ led_call.leds[r + 1] \in 0..255
                /\ \A c \in 0..7 :
                      BitSet(led_call.leds[r + 1], c) <=>
                          \E q \in Range(led_call.message.squares) :
                              /\ LedRow(q, led_call.rotate180) = r
                              /\ LedColumn(q, led_call.rotate180) = c
    /\ (led_call.op = "squares2led" /\ led_call.message = Sqs(Corners)
            /\ ~led_call.rotate180) =>
          led_call.leds = default_messages("corners")

\* C20's case: a move string with rotate180 (e2e4 lights the bits of d7 and d5)
C20_Witness ==
    /\ led_call.op = "squares2led"
    /\ led_call.rotate180
    /\ led_call.message = SquareStr(<<<<"e", "2">>, <<"e", "4">>>>)
    /\ led_call.leds = <<0, 8, 0, 8, 0, 0, 0, 0>>

(***************************************************************************)
(* The flash specification: calls of LedManager.flash_leds at any times,   *)
(* with the targets of its call sites, among other set_leds calls          *)
(***************************************************************************)
\* the targets of the flash_leds calls: 'thinking', 'corners', 'all' and a hint
\* (a move string); every call site leaves rotate180 at its default
FlashTargets == {Str("corners"), Str("all"),
                 SquareStr(<<<<"e", "2">>, <<"e", "4">>>>)}

AllOff == <<0, 0, 0, 0, 0, 0, 0, 0>>

\* the record of the frames put on the queue: the last one and when, the one
\* before it, the frames of the current period of flash_leds calls with one
\* target (counted up to 3), and the last call
NoFlashCall == [op |-> "none", target |-> NoMsg, new |-> FALSE, sent |-> FALSE,
                t |-> 0, shown |-> <<>>, sent_at |-> 0, prev_shown |-> <<>>,
                gap |-> 0, period |-> 0]

\* the record after a call that has made the LedManager L
FlashRecord(op, target, new, L, period_before) ==
    IF Len(L.queue) > Len(queue_to_usbtool)
    THEN [op |-> op, target |-> target, new |-> new, sent |-> TRUE, t |-> TimeTime,
          shown |-> L.queue[Len(L.queue)], sent_at |-> TimeTime,
          prev_shown |-> led_call.shown, gap |-> TimeTime - led_call.sent_at,
          period |-> Min(period_before + 1, 3)]
    ELSE [led_call EXCEPT !.op = op, !.target = target, !.new = new, !.sent = FALSE,
                          !.t = TimeTime, !.period = period_before]

\* a call of led_manager.flash_leds(target)
FlashCall ==
    /\ Len(queue_to_usbtool) <= MaxWaiting
    /\ \E target \in FlashTargets :
       \E L \in {flash_leds(LedState, target, FALSE, TimeTime)} :
          /\ LedBecomes(L)
          /\ led_call' = FlashRecord("flash", target, last_flash_message # target, L,
                                     IF led_call.op = "flash" /\ led_call.target = target
                                     THEN led_call.period ELSE 0)

\* something else drives the LEDs: a call of led_manager.set_leds
OtherSetLeds ==
    /\ Len(queue_to_usbtool) <= MaxWaiting
    /\ \E message \in {Str("none"), Str("corners")} :
       \E L \in {set_leds(LedState, message, FALSE)} :
          /\ LedBecomes(L)
          /\ led_call' = FlashRecord("set_leds", message, FALSE, L, 0)

\* time passes
TickFlash ==
    /\ now < MaxTicksF * TickF
    /\ now' = now + TickF

InitFlash ==
    /\ CalIdle
    /\ led_call = NoFlashCall
    /\ game = NoGame
    /\ now = 0
    /\ LedInit
    /\ UsbInit /\ fixed_port = FALSE
    /\ DecInit
    /\ DecLoad(NoFile)
    /\ GmIdle
    /\ PicoIdle

NextFlash ==
    \/ FlashCall /\ UNCHANGED <<now, usbVars, decVars, gmVars, picoVars, calVars, game>>
    \/ OtherSetLeds /\ UNCHANGED <<now, usbVars, decVars, gmVars, picoVars, calVars, game>>
    \/ UsbtoolTakes /\ UNCHANGED <<now, usbVars, decOther, gmVars, auxVars>>
    \/ TickFlash /\ UNCHANGED <<ledVars, usbVars, decVars, gmVars, picoVars, auxVars>>

SpecFlash == InitFlash /\ [][NextFlash]_vars

\* C21: in a period of flash_leds calls with one target and no other call, every
\* frame sent is the target's pattern or all-off, a frame sent after another one
\* of the period is the other of the two and is sent more than flash_frequency
\* after it, and the frame a call with a new target sends is the target's
C21_FlashAlternates ==
    (led_call.op = "flash" /\ led_call.sent) =>
        /\ led_call.shown \in {LedBytes(led_call.target, FALSE), AllOff}
        /\ led_call.new => led_call.shown = LedBytes(led_call.target, FALSE)
        /\ led_call.period >= 2 =>
              /\ led_call.prev_shown \in {LedBytes(led_call.target, FALSE), AllOff}
              /\ led_call.prev_shown # led_call.shown
              /\ led_call.gap > flash_frequency

\* C21's case: the third frame of a period: the target again, after all-off
C21_Witness ==
    /\ led_call.op = "flash"
    /\ led_call.sent
    /\ ~led_call.new
    /\ led_call.period = 3
    /\ led_call.shown = LedBytes(led_call.target, FALSE)
    /\ led_call.prev_shown = AllOff

\* C22: a flash_leds call with a target that is not the flash target before
\* sets counter to 0 and flash_clock to the time of the call, and when it returns
\* the last frame sent is the new target's pattern
C22_TargetChangeResets ==
    (led_call.op = "flash" /\ led_call.new) =>
        /\ counter = 0
        /\ flash_clock = led_call.t
        /\ led_call.shown = LedBytes(led_call.target, FALSE)

\* C22's case: the target changes while the target before is in its all-off
\* phase, less than flash_frequency after the last frame
C22_Witness ==
    /\ led_call.op = "flash"
    /\ led_call.new
    /\ led_call.sent
    /\ led_call.prev_shown = AllOff
    /\ led_call.gap > 0
    /\ led_call.gap < flash_frequency

(***************************************************************************)
(* The reconnect specification: _usbtool and the core's poll while the      *)
(* device is unplugged and plugged in, also before the first open. The      *)
(* worker thread keeps running and time passes (weak fairness); the device  *)
(* changes while a time.sleep(1) that follows can still end in the explored *)
(* time.                                                                   *)
(***************************************************************************)
MaxFaultsR == 2         \* changes of the device's availability
MaxLinesR == 1          \* lines the device sends
MaxCmdsR == 1           \* commands the core lets wait on QUEUE_TO_USBTOOL

DeviceChangesInTime ==
    /\ now + reconnect_sleep <= MaxTicksR * TickR
    /\ DeviceChangesUpTo(MaxFaultsR)

\* the device sends a line of frame_tokens tokens that ends in " \r"
DeviceSendsFrame ==
    DeviceSends({l \in Lines : l.n = frame_tokens /\ l.ending = "space-cr"}, MaxLinesR)

TickReconnect ==
    /\ now < MaxTicksR * TickR
    /\ now' = now + TickR

\* the core calls set_leds
CoreSetLedsR ==
    /\ Len(queue_to_usbtool) < MaxCmdsR
    /\ \E m \in {Str("all"), Str("none")} : LedBecomes(set_leds(LedState, m, FALSE))

\* one section of the loop body of _usbtool
UsbtoolStep ==
    \/ UsbtoolConnect /\ UNCHANGED <<now, ledVars, decVars, gmVars, auxVars, picoVars>>
    \/ UsbtoolWake /\ UNCHANGED <<now, ledVars, decVars, gmVars, auxVars, picoVars>>
    \/ UsbtoolStore
         /\ UNCHANGED <<now, last_message, last_flash_message, flash_clock, counter,
                        decVars, gmVars, auxVars, picoVars>>
    \/ UsbtoolSend /\ UNCHANGED <<now, ledVars, decVars, gmVars, auxVars, picoVars>>
    \/ UsbtoolRead
         /\ UNCHANGED <<now, ledVars, gmVars, auxVars, picoVars, data_history,
                        data_history_i, board_fen, code_mapping, default_missing_piece,
                        calibration_file, needs_calibration, received, voted>>

NextReconnect ==
    \/ UsbtoolStep
    \/ CoreSetLedsR /\ UNCHANGED <<now, usbVars, decVars, gmVars, auxVars, picoVars>>
    \/ UsbReaderUpdate /\ UNCHANGED <<now, ledVars, usbVars, gmVars, auxVars, picoVars>>
    \/ DeviceChangesInTime /\ UNCHANGED <<now, ledVars, decVars, gmVars, auxVars, picoVars>>
    \/ DeviceSendsFrame /\ UNCHANGED <<now, ledVars, decVars, gmVars, auxVars, picoVars>>
    \/ TickReconnect /\ UNCHANGED <<ledVars, usbVars, decVars, gmVars, auxVars, picoVars>>

\* no fixed port is configured (cfg.args.port is None)
InitReconnect == InitTransport /\ ~fixed_port

SpecReconnect ==
    /\ InitReconnect
    /\ [][NextReconnect]_vars
    /\ WF_vars(UsbtoolStep)
    /\ WF_vars(TickReconnect /\ UNCHANGED <<ledVars, usbVars, decVars, gmVars, auxVars,
                                            picoVars>>)

\* C23: any two successful writes to the device lie at least buffer_ms apart
C23_WritesSpaced ==
    \A i \in 1..(Len(sent) - 1) : sent[i + 1].at - sent[i].at >= buffer_ms

\* C23's case: a write, a failed write after the device was unplugged and
\* plugged in, a reconnect and a second write
C23_Witness ==
    /\ Len(sent) >= 2
    /\ faults >= 2
    /\ last_open.attempted
    /\ last_open.after = "write"

\* C24: after a failure to open, write or read the connection is marked broken,
\* and without a fixed port every call of serial.Serial that follows a failure
\* comes after a call of find_port -- also after a failure of the first open
C24_RediscoveryBeforeOpen ==
    /\ last_failure # "none" => ~serial_ok
    /\ (last_open.attempted /\ last_open.after # "none" /\ ~fixed_port) =>
          last_open.rediscovered

move_detect_max_tries == 3

\* the only legal ply after n plies, while the pawns are not blocked
PawnPlies == <<"a2a3", "a7a6", "a3a4", "a6a5">>

\* chessboard.board_fen() of a move stack
Placement(stack) == <<2 + ((Len(stack) + 1) \div 2), 7 - (Len(stack) \div 2)>>

\* the placements the physical board can show
Placements == {<<w, b>> : w \in 2..4, b \in 5..7}

\* list(board.generate_legal_moves())
legal_plies(stack) ==
    IF Len(stack) < Len(PawnPlies) THEN <<PawnPlies[Len(stack) + 1]>> ELSE <<>>

\* chessboard.turn: True (white) after an even number of plies
turn(stack) == Len(stack) % 2 = 0

\* utils.get_moves(chessboard, board_state) over this rule engine
infer_moves(stack, state) ==
    LET first == legal_plies(stack)
        second == IF first = <<>> THEN <<>> ELSE legal_plies(stack \o first)
    IN  IF Placement(stack) = state THEN Returned(<<>>)
        ELSE IF first # <<>> /\ Placement(stack \o first) = state THEN Returned(first)
        ELSE IF second # <<>> /\ Placement(stack \o first \o second) = state
             THEN Returned(first \o second)
        ELSE Raised

\* chessboard.pop(), the stack not being empty
pop(stack) == SubSeq(stack, 1, Len(stack) - 1)

\* run.py take_back_steps, called after the recognition with the physical board
\* `state`; the second pop of an engine game raises IndexError on an empty stack
take_back_steps(g) ==
    LET one == pop(g.chessboard)
        tb == [recognized |-> TRUE, human_game |-> g.human_game,
               before |-> g.chessboard, physical |-> g.board_state,
               after |-> one, raised |-> FALSE]
    IN  IF g.human_game
        THEN [g EXCEPT !.chessboard = one, !.waiting_for_user_move = FALSE,
                       !.do_user_move = FALSE, !.take_back = tb]
        ELSE IF one = <<>>
        THEN [g EXCEPT !.chessboard = one, !.pc = "crashed",
                       !.take_back = [tb EXCEPT !.raised = TRUE]]
        ELSE [g EXCEPT !.chessboard = pop(one), !.waiting_for_user_move = FALSE,
                       !.do_user_move = FALSE,
                       !.take_back = [tb EXCEPT !.after = pop(one)]]

\* run.py 856-861: the logical board with its last ply popped has the physical
\* board's placement
take_back_recognized(g) ==
    /\ ~g.rom
    /\ g.chessboard # <<>>
    /\ Placement(pop(g.chessboard)) = g.board_state

\* run.py 846-875 and 1097-1101: an iteration of the game loop with the physical
\* board different from the logical board, while waiting for the user's move
GameBoardDiffers ==
    /\ game.pc = "running"
    /\ Placement(game.chessboard) # game.board_state
    /\ game.waiting_for_user_move
    /\ \E g \in {[game EXCEPT !.move_detect_tries = @ + 1]} :
       \E r \in {infer_moves(g.chessboard, g.board_state)} :
          IF r = Raised
          THEN IF g.move_detect_tries > move_detect_max_tries /\ take_back_recognized(g)
               THEN game' = take_back_steps(g)
               ELSE /\ g.move_detect_tries <= MaxTries
                    /\ game' = g
          ELSE game' = [g EXCEPT !.move_detect_tries = 0,
                                 !.waiting_for_user_move = FALSE,
                                 !.chessboard = @ \o r.moves]

\* run.py 884-919 and 1055-1076: an iteration with the two boards equal; the
\* engine's reply is pushed when it is the engine's turn, and the loop waits
\* for the user's move otherwise
GameBoardEqual ==
    /\ game.pc = "running"
    /\ Placement(game.chessboard) = game.board_state
    /\ IF ~game.human_game /\ turn(game.chessboard) # game.play_white
       THEN /\ legal_plies(game.chessboard) # <<>>
            /\ game' = [game EXCEPT !.chessboard = @ \o legal_plies(game.chessboard)]
       ELSE /\ ~game.waiting_for_user_move
            /\ game' = [game EXCEPT !.waiting_for_user_move = TRUE]

\* the user puts the pawns somewhere else (usb_reader.read_board, run.py 754)
PiecesMoved ==
    /\ game.pc = "running"
    /\ \E state \in Placements \ {game.board_state} :
          game' = [game EXCEPT !.board_state = state]

InitTakeBack ==
    /\ CalIdle
    /\ led_call = NoLedCall
    /\ \E human \in BOOLEAN, white \in BOOLEAN, r \in BOOLEAN :
          game = [NoGame EXCEPT !.pc = "running", !.human_game = human,
                                !.play_white = white, !.rom = r,
                                !.board_state = Placement(<<>>)]
    /\ now = 0
    /\ LedInit
    /\ UsbInit /\ fixed_port = FALSE
    /\ DecInit
    /\ DecLoad(NoFile)
    /\ GmIdle
    /\ PicoIdle

NextTakeBack ==
    \/ GameBoardDiffers /\ UNCHANGED <<now, ledVars, usbVars, decVars, gmVars, picoVars, calVars, led_call>>
    \/ GameBoardEqual /\ UNCHANGED <<now, ledVars, usbVars, decVars, gmVars, picoVars, calVars, led_call>>
    \/ PiecesMoved /\ UNCHANGED <<now, ledVars, usbVars, decVars, gmVars, picoVars, calVars, led_call>>

SpecTakeBack == InitTakeBack /\ [][NextTakeBack]_vars

\* the number of plies a take-back removes: one, and two in an engine game
plies_taken_back(human) == IF human THEN 1 ELSE 2

\* C26: a take-back is recognized after more than move_detect_max_tries failed
\* inferences, when the logical board with its last ply popped (in an engine
\* game: its last two plies popped) has the physical board's placement, and
\* after the take-back the logical board's placement is the physical board's
C26_TakeBackMatchesBoard ==
    game.take_back.recognized =>
        LET tb == game.take_back
            k == plies_taken_back(tb.human_game)
        IN  /\ Len(tb.before) >= k
            /\ Placement(SubSeq(tb.before, 1, Len(tb.before) - k)) = tb.physical
            /\ ~tb.raised
            /\ Placement(tb.after) = tb.physical

\* C26, human games only: the take-back pops the one ply the recognition popped
C26_HumanGameTakeBack ==
    (game.take_back.recognized /\ game.take_back.human_game) =>
        /\ Placement(pop(game.take_back.before)) = game.take_back.physical
        /\ Placement(game.take_back.after) = game.take_back.physical
        /\ ~game.take_back.raised

C26_Witness ==
    /\ game.take_back.recognized
    /\ ~game.take_back.human_game
    /\ ~game.take_back.raised
    /\ Placement(game.take_back.after) # game.take_back.physical

C26_WitnessRaised == game.take_back.recognized /\ game.take_back.raised

(***************************************************************************)
(* The start, hint and calibrate gestures: the main loop polls the gesture *)
(* decoder with the decoder on. The start gesture specification follows    *)
(* the home and new game windows over the 20 seconds of a deferred start;  *)
(* the hint and calibrate specification follows all windows.               *)
(***************************************************************************)
StartBoards == {StartBoard, StartGameBoard, NewGameBoard, NoKingsBoard}
HintBoards == {StartBoard, NoKingsBoard, NewGameBoard}

\* run.py lines 426-435, with the game settings as the buttons of the new game
\* window may have left them (run.py 1517-1520 and 1526-1530)
InitGestures ==
    /\ AuxIdle
    /\ now = 0
    /\ LET L0 == [last_message |-> NoMsg, last_flash_message |-> NoMsg,
                  flash_clock |-> 0, counter |-> 0, queue |-> <<>>]
           L2 == set_leds(set_leds(L0, Str("all"), FALSE), Str("none"), FALSE)
       IN  /\ last_message = L2.last_message
           /\ last_flash_message = L2.last_flash_message
           /\ flash_clock = L2.flash_clock
           /\ counter = L2.counter
           /\ queue_to_usbtool = L2.queue
    /\ UsbInit /\ fixed_port = FALSE
    /\ PicoInit(TRUE)
    /\ DecInitWith("N")
    /\ DecLoad(LearnedFile)
    /\ GmIdle
    /\ window = "home"
    /\ \E human \in BOOLEAN, position \in BOOLEAN :
          game_settings = [default_settings EXCEPT !.human_game = human,
                                                   !.use_board_position = position]
    /\ calibration = FALSE
    /\ loop_pc = "poll"
    /\ powered_off = FALSE
    /\ physical_board = StartBoard
    /\ shows = 0
    /\ last_commit = NoCommit
    /\ prev_commit = NoCommit
    /\ gesture_log = [NoGestures EXCEPT !.kept = TRUE]
    /\ last_poll = NoPoll
    /\ countdown = [t \in ExitTypes |-> NoCountdown]

\* time passes; the main loop runs many times a second, so that a window is
\* polled at every clock step
TickGestures(ticks) ==
    /\ gesture_log.polled_at = now
    /\ TickPico(ticks)

\* time passes in the start gesture specification: the seconds after the start
\* of the program and the seconds around the deadline of a deferred start
TickStart ==
    /\ gesture_log.polled_at = now
    /\ queue_to_usbtool = <<>>
    /\ now < MaxTicksS * TickP
    /\ now' = IF now = QuietFromS * TickP THEN QuietUntilS * TickP ELSE now + TickP

\* the home window and the new game window, until a game is started
NextStart ==
    \/ MainPoll /\ window # "game" /\ UNCHANGED <<now, usbVars, decOther, gmVars, auxVars>>
    \/ MainHome /\ UNCHANGED <<now, usbVars, decOther, gmVars, auxVars>>
    \/ MainNewGame /\ UNCHANGED <<now, usbVars, decOther, gmVars, auxVars>>
    \/ UsbtoolTakes /\ UNCHANGED <<now, usbVars, decOther, gmVars, auxVars>>
    \/ BoardShowsUpTo(StartBoards, MaxShowsS) /\ window # "game"
           /\ UNCHANGED <<now, usbVars, decOther, gmVars, auxVars>>
    \/ TickStart /\ window # "game"
           /\ UNCHANGED <<ledVars, usbVars, decVars, gmVars, auxVars, picoVars>>

InitStart == InitGestures /\ ~game_settings.human_game

SpecStart == InitStart /\ [][NextStart]_vars

NextHint ==
    \/ MainPoll /\ UNCHANGED <<now, usbVars, decOther, gmVars, auxVars>>
    \/ KeyHome /\ UNCHANGED <<now, usbVars, decOther, gmVars, auxVars>>
    \/ MainHome /\ UNCHANGED <<now, usbVars, decOther, gmVars, auxVars>>
    \/ MainNewGame /\ UNCHANGED <<now, usbVars, decOther, gmVars, auxVars>>
    \/ MainGame /\ UNCHANGED <<now, usbVars, decOther, gmVars, auxVars>>
    \/ MainThinking /\ UNCHANGED <<now, usbVars, decOther, gmVars, auxVars>>
    \/ UsbtoolTakes /\ UNCHANGED <<now, usbVars, decOther, gmVars, auxVars>>
    \/ BoardShowsUpTo(HintBoards, MaxShowsH) /\ UNCHANGED <<now, usbVars, decOther, gmVars, auxVars>>
    \/ TickGestures(MaxTicksH) /\ UNCHANGED <<ledVars, usbVars, decVars, gmVars, auxVars, picoVars>>

InitHint == InitGestures /\ ~game_settings.use_board_position

SpecHint == InitHint /\ [][NextHint]_vars

\* the deadline of a start gesture, counted from the gesture
start_deadline(position) == IF position THEN 20000 ELSE wait_between_commands

\* C27: new_game_window returns start = True only if the start gesture was
\* recognized before and not consumed, its deadline has passed (3000 ms after
\* the gesture, 20000 ms with use_board_position) and use_board_position is off
\* or both kings are on the board; with the kings missing it sets the 3000 ms
\* window again and returns False; it returns True at most once per gesture
C27_DeferredStart ==
    LET c == gesture_log.poll
    IN  /\ c.ret => /\ c.armed
                    /\ c.since >= start_deadline(c.use_board_position)
                    /\ (~c.use_board_position \/ c.kings)
        /\ (c.called /\ c.armed /\ c.elapsed /\ c.use_board_position /\ ~c.kings)
              => (~c.ret /\ c.rearmed)
        /\ gesture_log.starts <= 1

\* C27 while home_window has not set last_command_time since the gesture
C27_DeferredStartOwnClock ==
    LET c == gesture_log.poll
    IN  /\ (c.ret /\ ~gesture_log.home_command) =>
              /\ c.armed
              /\ c.since >= start_deadline(c.use_board_position)
              /\ (~c.use_board_position \/ c.kings)
        /\ c.ret => (c.armed /\ (~c.use_board_position \/ c.kings))
        /\ (c.called /\ c.armed /\ c.elapsed /\ c.use_board_position /\ ~c.kings)
              => (~c.ret /\ c.rearmed)
        /\ gesture_log.starts <= 1

\* a start from the board position, after the kings were missing at the deadline
C27_Witness ==
    /\ gesture_log.poll.ret
    /\ gesture_log.poll.use_board_position
    /\ ~gesture_log.home_command
    /\ gesture_log.poll.since > 20000

\* C28: game_window reports a HintRequest only in a game against the engine,
\* with the debounce window elapsed and the physical board equal to the logical
\* board without the two kings; and a HintRequest follows another one by at
\* least 3000 + 2000 ms
C28_HintRequest ==
    /\ gesture_log.hint.ret =>
          /\ ~gesture_log.hint.human_game
          /\ gesture_log.hint.elapsed
          /\ gesture_log.hint.matches
    /\ gesture_log.hint_gap # -1 =>
          gesture_log.hint_gap >= wait_between_commands + 2000

\* C28 while home_window has not set last_command_time since the HintRequest
C28_HintRequestOwnClock ==
    /\ gesture_log.hint.ret =>
          /\ ~gesture_log.hint.human_game
          /\ gesture_log.hint.elapsed
          /\ gesture_log.hint.matches
    /\ (gesture_log.hint_gap # -1 /\ ~gesture_log.hint_gap_home) =>
          gesture_log.hint_gap >= wait_between_commands + 2000

\* a second HintRequest, five seconds after the first
C28_Witness ==
    /\ gesture_log.hint.ret
    /\ gesture_log.hint_gap = wait_between_commands + 2000
    /\ ~gesture_log.hint_gap_home

(***************************************************************************)
(* The calibrate gesture: the home window and the new game window are      *)
(* polled while the calibration pattern is put on the board, taken off and *)
(* put back                                                                *)
(***************************************************************************)
CalibrateBoards == {StartBoard, CalibrateBoard, NewGameBoard}

NextCalibrateGesture ==
    \/ MainPoll /\ window # "game" /\ UNCHANGED <<now, usbVars, decOther, gmVars, auxVars>>
    \/ MainHome /\ UNCHANGED <<now, usbVars, decOther, gmVars, auxVars>>
    \/ MainNewGame /\ UNCHANGED <<now, usbVars, decOther, gmVars, auxVars>>
    \/ UsbtoolTakes /\ UNCHANGED <<now, usbVars, decOther, gmVars, auxVars>>
    \/ BoardShowsUpTo(CalibrateBoards, MaxShowsC) /\ window # "game"
           /\ UNCHANGED <<now, usbVars, decOther, gmVars, auxVars>>
    \/ TickGestures(MaxTicksC) /\ window # "game"
           /\ UNCHANGED <<ledVars, usbVars, decVars, gmVars, auxVars, picoVars>>

\* the game settings as run.py 359-371 makes them
InitDefaultSettings ==
    /\ InitGestures
    /\ ~game_settings.human_game
    /\ ~game_settings.use_board_position

SpecCalibrateGesture == InitDefaultSettings /\ [][NextCalibrateGesture]_vars

\* C29: home_window returns the Calibrate command at most once (nothing in the
\* program sets can_calibrate again), however long the calibration pattern
\* stays on the board and however often it is put back
C29_CalibrateOnce ==
    /\ gesture_log.calibrates <= 1
    /\ gesture_log.calibrates = 1 => ~can_calibrate

\* Calibrate was returned, the pattern was taken off and put back, and
\* home_window has seen it again after the debounce window
C29_Witness ==
    /\ gesture_log.calibrates = 1
    /\ gesture_log.shown_again
    /\ shows = MaxShowsC
    /\ physical_board = CalibrateBoard
    /\ window = "home"
    /\ loop_pc = "poll"
    /\ gesture_log.polled_at = now
    /\ now >= wait_between_commands

(***************************************************************************)
(* row_0_to_71: the new game window reads the difficulty from the queens   *)
(* on rank 5 (board_rows[3]), for every placement of one queen or of a     *)
(* white and a black queen on that rank                                    *)
(***************************************************************************)
Files == 1..8

\* the rank with a white queen on file w and a black queen on file b, 0 for no
\* queen of that colour
queen_row(w, b) ==
    CompressRow([f \in Files |-> IF f = w THEN "Q" ELSE IF f = b THEN "q" ELSE "."], 0)

\* the valid queen placements on one rank
QueenRows ==
    {queen_row(w, 0) : w \in Files} \cup {queen_row(0, b) : b \in Files}
    \cup {queen_row(pair[1], pair[2]) :
             pair \in {pr \in Files \X Files : pr[1] # pr[2]}}

DifficultyBoards ==
    {Ranks(board_row["8"], row, board_row["8"], board_row["8"]) : row \in QueenRows}

NextDifficulty ==
    \/ MainPoll /\ window # "game" /\ UNCHANGED <<now, usbVars, decOther, gmVars, auxVars>>
    \/ MainHome /\ UNCHANGED <<now, usbVars, decOther, gmVars, auxVars>>
    \/ MainNewGame /\ UNCHANGED <<now, usbVars, decOther, gmVars, auxVars>>
    \/ UsbtoolTakes /\ UNCHANGED <<now, usbVars, decOther, gmVars, auxVars>>
    \/ BoardShowsUpTo(DifficultyBoards, MaxShowsD) /\ window # "game"
           /\ UNCHANGED <<now, usbVars, decOther, gmVars, auxVars>>

SpecDifficulty == InitDefaultSettings /\ [][NextDifficulty]_vars

\* C30: there are 16 + 56 valid placements, every one of them gives a value in
\* 0..71, no two of them give the same value and every value is given; and the
\* difficulty that new_game_window has read is the value of the placement on
\* the board, and of no other placement
C30_Bijection ==
    \A rows \in {QueenRows} :
    \A value \in {[row \in rows |-> row_0_to_71(row)]} :
       /\ Cardinality(rows) = 16 + 56
       /\ \A row \in rows : value[row] \in 0..71
       /\ \A row, other \in rows : row # other => value[row] # value[other]
       /\ {value[row] : row \in rows} = 0..71
       /\ last_commit.cmd = "SettingsChanged" =>
             /\ gesture_log.settings_board[4] \in rows
             /\ game_settings.difficulty = row_0_to_71(gesture_log.settings_board[4])
             /\ \A other \in rows :
                   value[other] = game_settings.difficulty
                      => other = gesture_log.settings_board[4]

\* the difficulty 71 was read from the black queen on g5 and the white queen on h5
C30_Witness ==
    /\ last_commit.cmd = "SettingsChanged"
    /\ gesture_log.settings_board[4] = <<"6", "q", "Q">>
    /\ game_settings.difficulty = 71

(***************************************************************************)
(* The difficulty: the queens on rank 5 and the two depth buttons of the   *)
(* new game window                                                         *)
(***************************************************************************)
\* cfg.args.max_depth, by default MAX_DEPTH_DEFAULT
max_depth == 20

\* run.py 1537-1541: a click on the "<" button of the depth
depth_less(settings) ==
    [settings EXCEPT !.difficulty = IF @ > 0 THEN @ - 1 ELSE max_depth - 1]

\* run.py 1542-1546: a click on the ">" button of the depth
depth_more(settings) ==
    [settings EXCEPT !.difficulty = IF @ < max_depth - 1 THEN @ + 1 ELSE 0]

\* a click on one of the depth buttons, in the new game window
DepthClick ==
    /\ window = "new game"
    /\ loop_pc = "poll"
    /\ ~powered_off
    /\ \/ game_settings' = depth_less(game_settings)
       \/ game_settings' = depth_more(game_settings)
    /\ UNCHANGED <<on, last_command_time, last_exit_command_time, exit_command,
                   start_game, can_calibrate, window, calibration, loop_pc,
                   powered_off, physical_board, shows, last_commit, prev_commit,
                   gesture_log, last_poll, countdown, ledVars, default_missing_piece>>

NextDepth ==
    \/ MainPoll /\ window # "game" /\ UNCHANGED <<now, usbVars, decOther, gmVars, auxVars>>
    \/ MainHome /\ UNCHANGED <<now, usbVars, decOther, gmVars, auxVars>>
    \/ MainNewGame /\ UNCHANGED <<now, usbVars, decOther, gmVars, auxVars>>
    \/ DepthClick /\ UNCHANGED <<now, usbVars, decOther, gmVars, auxVars>>
    \/ UsbtoolTakes /\ UNCHANGED <<now, usbVars, decOther, gmVars, auxVars>>
    \/ BoardShowsUpTo(DifficultyBoards, MaxShowsD) /\ window # "game"
           /\ UNCHANGED <<now, usbVars, decOther, gmVars, auxVars>>

SpecDepth == InitDefaultSettings /\ [][NextDepth]_vars

\* C31: after any sequence of gestures read by new_game_window and of clicks on
\* the depth buttons, the difficulty is an integer in 0..max_depth-1
C31_DifficultyInRange == game_settings.difficulty \in 0..(max_depth - 1)

\* C31 for the depth buttons alone: from a difficulty in the range a click
\* gives a difficulty in the range
C31_ClicksKeepRange ==
    \A d \in 0..(max_depth - 1) :
       \A settings \in {[game_settings EXCEPT !.difficulty = d]} :
          /\ depth_less(settings).difficulty \in 0..(max_depth - 1)
          /\ depth_more(settings).difficulty \in 0..(max_depth - 1)

(***************************************************************************)
(* take_back_steps on a short move stack                                   *)
(***************************************************************************)
\* C36: an implicit take-back never pops more plies than the stack holds:
\* take_back_steps completes without error, also in an engine game whose stack
\* holds a single move
C36_TakeBackCompletes ==
    game.take_back.recognized =>
        /\ Len(game.take_back.before) >= plies_taken_back(game.take_back.human_game)
        /\ game.pc # "crashed"

\* the part of C36 that the code keeps: the first pop never fails, and a human
\* game's take-back completes
C36_FirstPopCompletes ==
    game.take_back.recognized =>
        /\ Len(game.take_back.before) >= 1
        /\ game.take_back.human_game => game.pc # "crashed"

(***************************************************************************)
(* check_exit: the board at the poll that confirms an exit                 *)
(***************************************************************************)
\* C33: check_exit returns 2 (confirmed exit) for type T only at a call whose
\* board argument shows the kings in the T exit pattern: an exit is never
\* confirmed at a poll where the pattern is already broken
C33_ConfirmedInPattern ==
    last_poll.ret = 2 => last_poll.in_pattern

\* what the code keeps of C33: a poll returns 2 only for a countdown that no
\* earlier poll of its type saw broken within its five seconds, and only once
\* the five seconds are over
C33_ConfirmedNotAborted ==
    last_poll.ret = 2 =>
        /\ ~last_poll.was_aborted
        /\ last_poll.elapsed >= 5000

\* an exit confirmed by a poll that sees the kings out of the pattern
C33_WitnessBroken ==
    /\ last_poll.ret = 2
    /\ ~last_poll.in_pattern

(***************************************************************************)
(* PicoChess.update while an application exit is counted down or with the  *)
(* gesture decoder off                                                     *)
(***************************************************************************)
\* the windows update is called for (run.py 486, 749, 1045, 1209)
UpdateWindows == {"home", "new game", "game", "thinking"}

\* C40: while exit_command['application'] is true or the gesture decoder is off,
\* update, called for any window with the board the loop reads, emits no
\* command (it returns the window and the settings it was given, a false flag
\* and no exit state), leaves last_command_time, start_game, can_calibrate and
\* the rest of the decoder as they are, and sends nothing to the LEDs
C40_UpdateDoesNothing ==
    (exit_command["application"] \/ ~on) =>
        \A win \in UpdateWindows :
        \A U \in {update(PicoState, LedState, win,
                         read_board(win = "thinking" /\ game_settings.rotate180),
                         game_settings, chessboard, now, TimeTime)} :
            /\ U.pico = PicoState
            /\ U.led = LedState
            /\ U.settings = game_settings
            /\ U.win = win
            /\ ~U.flag
            /\ U.exit_state = 0
            /\ Committed(PicoState, game_settings, win, U) = "none"

\* C40's case: the game window is about to be polled during an application exit
\* countdown, with a board on which game_window would report a hint request
C40_Witness ==
    /\ on
    /\ exit_command["application"]
    /\ loop_pc = "window"
    /\ window = "game"
    /\ game_window(PicoState, LedState, read_board(FALSE), game_settings,
                   chessboard, now, TimeTime).r2

(***************************************************************************)
(* set_leds: the orientation of the frame on the LEDs                      *)
(***************************************************************************)
\* C35: after any sequence of set_leds calls, the frame most recently enqueued
\* is the encoding of the most recent request under the rotate180 passed with
\* that request; a request for the same squares with a changed orientation
\* updates the LEDs
C35_LastFrameIsLastRequest ==
    led_call.op = "set_leds" =>
        led_call.last_frame = LedBytes(led_call.message, led_call.rotate180)

\* what the code keeps of C35: the frame most recently enqueued is the encoding
\* of the most recent request under SOME orientation, and under the orientation
\* passed with it when the call enqueued a frame
C35_LastFrameUnderSomeOrientation ==
    led_call.op = "set_leds" =>
        /\ \E rotate180 \in BOOLEAN :
              led_call.last_frame = LedBytes(led_call.message, rotate180)
        /\ led_call.enqueued = 1 =>
              led_call.last_frame = LedBytes(led_call.message, led_call.rotate180)

(***************************************************************************)
(* The re-arming specification: the home window's loop with clicks on the  *)
(* two calibration buttons at any time, also while samples are collected   *)
(***************************************************************************)
MaxArmings == 2         \* clicks on the calibration buttons in a behaviour

\* run.py lines 522-532: a click on "add piece" (setup FALSE) or on "new setup",
\* whether samples are being collected or not. The list the click empties is
\* run.py's own calibration_samples (lines 526 and 532);
\* UsbReader.calibration_samples is left as it is
CalArm(setup) ==
    /\ cal_pc = "running"
    /\ cal_call.armings < MaxArmings
    /\ calibration' = TRUE
    /\ new_setup' = setup
    /\ cal_call' = [cal_call EXCEPT !.armings = @ + 1]
    /\ UNCHANGED <<calibration_samples, calibration_data_history_i, calibration_mapping,
                   cal_pc, device_frame, frame_changes, file_before, started,
                   passes, crashes, ledVars, decVars, picoRest, led_call, game>>

NextRearm ==
    \/ CalHome /\ UNCHANGED <<now, usbVars, gmVars>>
    \/ CalDumpCompletes /\ UNCHANGED <<now, usbVars, gmVars>>
    \/ CalArm(FALSE) /\ UNCHANGED <<now, usbVars, gmVars>>
    \/ CalArm(TRUE) /\ UNCHANGED <<now, usbVars, gmVars>>
    \/ CalFrameArrives /\ UNCHANGED <<now, usbVars, gmVars>>
    \/ UsbtoolTakes /\ UNCHANGED <<now, usbVars, decOther, gmVars, auxVars>>

\* the program started on a calibration file that holds piece codes
InitRearm ==
    /\ InitCalibration
    /\ started.from = "file"

SpecRearm == InitRearm /\ [][NextRearm]_vars

\* C38: every sample used by a calibration pass was collected after the most
\* recent arming of calibration and under the mode (new_setup) the pass runs
\* in; samples left over from an earlier or re-armed collection are never used
C38_SamplesOfThisArming ==
    \A i \in DOMAIN cal_call.used :
        /\ cal_call.used[i].arming = cal_call.used_for.arming
        /\ cal_call.used[i].setup = cal_call.used_for.setup

\* what the code keeps of C38: the samples a pass uses were collected after the
\* pass before it (calibration() clears the samples when a pass is done)
C38_SamplesSinceLastPass ==
    \A i \in DOMAIN cal_call.used :
        cal_call.used[i].passes = cal_call.used_for.passes

\* a new-setup pass has run on samples collected for an add-piece pass
C38_WitnessLeftOver ==
    /\ cal_call.returned = "True"
    /\ cal_call.used_for.setup
    /\ \E i \in DOMAIN cal_call.used : ~cal_call.used[i].setup

(***************************************************************************)
(* needs_calibration after a start on a file without piece codes           *)
(***************************************************************************)
\* C39: after a start of the program that loaded a code map without any piece
\* code (the zero code only), needs_calibration is true, also at the second
\* start after a first run created the calibration file and ended before a
\* calibration pass completed
C39_NeedsCalibrationWithoutCodes ==
    (started.from # "none" /\ ~started.raised /\ started.only_zero) =>
        started.needs_calibration

\* what the code keeps of C39: needs_calibration is true after a start that
\* found no calibration file
C39_NeedsCalibrationWithoutFile ==
    started.from = "missing" =>
        /\ started.only_zero
        /\ started.needs_calibration

\* the second start, on the file that the first start created
C39_WitnessSecondStart ==
    /\ crashes = 1
    /\ passes = 0
    /\ cal_pc = "running"
    /\ started.from = "file"
    /\ started.only_zero
    /\ ~needs_calibration

(***************************************************************************)
(* The delivery specification: the core's LED commands against _usbtool    *)
(* while the device is unplugged and plugged in. The worker thread keeps   *)
(* running (weak fairness) and time passes when the worker waits for it,  *)
(* which it does again and again at the top of its loop (strong fairness); *)
(* the core's last command and the device's last change leave the time of  *)
(* a time.sleep(1) and of a buffer interval in the explored time.          *)
(***************************************************************************)
MaxTicksL == 3          \* clock steps explored by the delivery specification

\* the last time at which the core enqueues and the device changes
QuietFromL == MaxTicksL * TickR - reconnect_sleep - TickR

\* the core calls set_leds
CoreSetLedsInTime ==
    /\ now <= QuietFromL
    /\ CoreSetLedsR

\* the device is unplugged or plugged in
DeviceChangesBeforeQuiet ==
    /\ now <= QuietFromL
    /\ DeviceChangesUpTo(MaxFaultsR)

\* the worker has nothing to do until time passes: it sleeps after a failed
\* (re)connect, or it is at the top of its loop, connected, with no command to
\* take, no write due and no line to read
UsbtoolWaits ==
    \/ upc = "backoff" /\ now < wake_at
    \/ /\ upc = "connect"
       /\ serial_ok /\ handle_ok
       /\ queue_to_usbtool = <<>>
       /\ dev_in = <<>>
       /\ ~send_due(message_to_board, TimeTime, time_last_message_to_board)

\* a clock step; the worker's loop (a pass per millisecond) is fast against it
TickDelivery ==
    /\ now < MaxTicksL * TickR
    /\ UsbtoolWaits
    /\ now' = now + TickR

NextDelivery ==
    \/ UsbtoolStep
    \/ CoreSetLedsInTime /\ UNCHANGED <<now, usbVars, decVars, gmVars, auxVars, picoVars>>
    \/ DeviceChangesBeforeQuiet /\ UNCHANGED <<now, ledVars, decVars, gmVars, auxVars, picoVars>>
    \/ TickDelivery /\ UNCHANGED <<ledVars, usbVars, decVars, gmVars, auxVars, picoVars>>

SpecDelivery ==
    /\ InitReconnect
    /\ [][NextDelivery]_vars
    /\ WF_vars(UsbtoolStep)
    /\ SF_vars(TickDelivery /\ UNCHANGED <<ledVars, usbVars, decVars, gmVars, auxVars,
                                           picoVars>>)

\* the last successful write put the frame of request m on the device
Delivered(m) ==
    /\ sent # <<>>
    /\ sent[Len(sent)].data = LedBytes(m, FALSE)

\* C34: if the core enqueues a LED command and no later one (last_message stays
\* the request m for good), and the device ends up connected and writable for
\* good, the command is eventually written successfully -- also when an earlier
\* write attempt failed or it was enqueued while the device was disconnected
C34_LastCommandDelivered ==
    \A m \in {Str("all"), Str("none")} :
        ((<>[]dev_ok) /\ <>[](last_message = m)) => <>[]Delivered(m)

\* what the code keeps of C34: the command is written when no write attempt
\* fails, also when it was enqueued while the device was disconnected
C34_DeliveredUnlessWriteFails ==
    \A m \in {Str("all"), Str("none")} :
        ((<>[]dev_ok) /\ <>[](last_message = m) /\ [](last_failure # "write"))
            => <>[]Delivered(m)

\* a command was taken for a write that failed; the device is connected again
\* and nothing is left to write
C34_WitnessLost ==
    /\ last_open.after = "write"
    /\ last_message # NoMsg
    /\ queue_to_usbtool = <<>>
    /\ message_to_board = <<>>
    /\ ~Delivered(last_message)
    /\ serial_ok /\ handle_ok
    /\ now = MaxTicksL * TickR

(***************************************************************************)
(* The game loop of run.py with the engine and the clock: an iteration of  *)
(* the game window up to the engine's move, the loop that waits for the    *)
(* engine, the push of its move and the push of the user's moves. The rule *)
(* engine is the a-file game of the take-back specification.               *)
(***************************************************************************)
MaxTicksG == 2          \* clock steps explored by the game specification
TickG == 30000          \* milliseconds per clock step of the game specification

\* chessboard.turn as GameClock compares it: 1 for white, 0 for black
TurnInt(stack) == IF turn(stack) THEN 1 ELSE 0

\* chessboard.is_game_over() over this rule engine: no legal ply is left
is_game_over(stack) == legal_plies(stack) = <<>>

\* GameClock.start (utils.py 111-133) with a custom time control; time_left
\* holds time_black_left and time_white_left, in seconds
clock_start(time_constraint, minutes, increment, t) ==
    [time_constraint |-> time_constraint, time_increment_seconds |-> increment,
     time_left |-> <<minutes * 60, minutes * 60>>, waiting_for_player |-> -99,
     game_overtime |-> FALSE, last_tick |-> t]

\* GameClock.update (utils.py 135-179): the clock after the call at time t; the
\* call returns game_overtime of the clock it leaves
clock_update(C, stack, t) ==
    LET who == TurnInt(stack)
        left == C.time_left[who + 1] - ((t - C.last_tick) \div 1000)
    IN  IF C.time_constraint = "unlimited" \/ C.game_overtime THEN C
        ELSE IF C.waiting_for_player # who
        THEN [C EXCEPT !.time_left =
                           IF C.waiting_for_player = -99 THEN @
                           ELSE [@ EXCEPT ![C.waiting_for_player + 1] =
                                              @ + C.time_increment_seconds],
                       !.waiting_for_player = who,
                       !.last_tick = t]
        ELSE [C EXCEPT !.last_tick = t,
                       !.time_left = [@ EXCEPT ![who + 1] = IF left <= 0 THEN 0 ELSE left],
                       !.game_overtime = left <= 0]

\* run.py 846-919: the branch on the physical board; continue is the continue
\* statement after an implicit take-back
board_branch(g) ==
    IF Placement(g.chessboard) # g.board_state
    THEN IF g.waiting_for_user_move
         THEN LET g1 == [g EXCEPT !.move_detect_tries = @ + 1]
                  r == infer_moves(g.chessboard, g.board_state)
              IN  IF r = Raised
                  THEN IF g1.move_detect_tries > move_detect_max_tries
                          /\ take_back_recognized(g1)
                       THEN [g |-> take_back_steps(g1), continue |-> TRUE]
                       ELSE [g |-> g1, continue |-> FALSE]
                  ELSE [g |-> [g1 EXCEPT !.move_detect_tries = 0,
                                         !.move = r.moves,
                                         !.waiting_for_user_move = FALSE,
                                         !.do_user_move = TRUE],
                        continue |-> FALSE]
         ELSE [g |-> g, continue |-> FALSE]
    ELSE LET ai == IF g.human_game THEN g.do_ai_move
                   ELSE turn(g.chessboard) # g.play_white
         IN  [g |-> [g EXCEPT !.do_ai_move = ai,
                              !.waiting_for_user_move =
                                  IF ~g.do_user_move /\ ~ai THEN TRUE ELSE @],
              continue |-> FALSE]

\* run.py 979: the condition of the AI MOVE block
ai_move_due(g) ==
    ~g.human_game /\ g.do_ai_move /\ ~is_game_over(g.chessboard) /\ ~g.game_overtime

\* run.py 1099-1101: for m in move: chessboard.push_uci(m); push_uci raises on a
\* move that is not legal, which ends the for loop
RECURSIVE push_all(_, _)
push_all(stack, move) ==
    IF move = <<>> THEN [stack |-> stack, raised |-> FALSE, pushed |-> 0]
    ELSE IF <<Head(move)>> # legal_plies(stack)
    THEN [stack |-> stack, raised |-> TRUE, pushed |-> 0]
    ELSE [push_all(Append(stack, Head(move)), Tail(move)) EXCEPT !.pushed = @ + 1]

\* run.py 1096-1114: USER MOVE
user_move(g) ==
    IF g.do_user_move /\ ~is_game_over(g.chessboard) /\ ~g.game_overtime
    THEN LET r == push_all(g.chessboard, g.move)
         IN  [g EXCEPT !.do_user_move = FALSE,
                       !.chessboard = r.stack,
                       !.do_ai_move = IF ~g.human_game /\ r.pushed > 0 THEN TRUE ELSE @,
                       !.waiting_for_user_move = IF r.raised THEN TRUE ELSE @]
    ELSE g

\* run.py 1066-1076: the engine's move (the legal ply of the position it was
\* asked for) is pushed unless the game is over time
ai_move_pushed(g) ==
    IF ~g.game_overtime
    THEN [g EXCEPT !.chessboard = @ \o legal_plies(@),
                   !.ai_push = [made |-> TRUE, turn |-> turn(g.chessboard)]]
    ELSE g

\* run.py 1061-1114: the rest of the iteration after the loop that waits for
\* the engine
after_wait(g) ==
    LET g1 == ai_move_pushed(g)
    IN  user_move([g1 EXCEPT !.pc = "running",
                             !.wait.pushed = g1.chessboard # g.chessboard])

\* run.py 1048, with the variant that leaves the loop on a force signal only
wait_loop_breaks_on_force(is_rom, force, overtime) == ~is_rom /\ force

\* run.py 1048: (not rom and (force_mbutton or force_picochess)) or game_overtime
wait_loop_breaks(is_rom, force, overtime) == (~is_rom /\ force) \/ overtime

\* an iteration of the main loop in the game window (run.py 846-921, 978-1005
\* and 1096-1114): the branch on the board, the clock, and either the start of
\* the engine (the loop that waits for it follows) or the user's moves
GameLoop ==
    /\ game.pc = "running"
    /\ \E B \in {board_branch(game)} :
          IF B.continue THEN game' = B.g
          ELSE \E g2 \in {[B.g EXCEPT !.clock = clock_update(@, B.g.chessboard, now)]} :
               \E g3 \in {[g2 EXCEPT !.game_overtime = g2.clock.game_overtime]} :
                  /\ g3.move_detect_tries <= MaxTries
                  /\ IF ai_move_due(g3)
                     THEN game' = [g3 EXCEPT !.do_ai_move = FALSE,
                                             !.waiting_ai_move = TRUE,
                                             !.alive = TRUE,
                                             !.pc = "thinking",
                                             !.ask = [made |-> TRUE,
                                                      turn |-> turn(g3.chessboard)],
                                             !.wait = NoWait]
                     ELSE game' = user_move(g3)

\* a pass of the loop that waits for the engine (run.py 1006-1060), and the
\* rest of the iteration when the pass leaves the loop; more_time stands for
\* ai_move_start_time + ai_move_duration > time.time(), force for the force
\* button and the force gesture
WaitLoop ==
    /\ game.pc = "thinking"
    /\ \E more_time \in BOOLEAN, force \in BOOLEAN :
          IF ~(game.waiting_ai_move \/ more_time)
          THEN /\ ~force
               /\ game' = after_wait([game EXCEPT
                              !.wait = [passed |-> TRUE, exit |-> "done",
                                        alive |-> game.alive, force |-> FALSE,
                                        overtime_before |-> game.game_overtime,
                                        overtime |-> game.game_overtime,
                                        pushed |-> FALSE]])
          ELSE \E g1 \in {[game EXCEPT
                              !.waiting_ai_move = game.alive,
                              !.clock = clock_update(@, game.chessboard, now)]} :
               \E g2 \in {[g1 EXCEPT
                              !.game_overtime = g1.clock.game_overtime,
                              !.wait = [passed |-> TRUE, exit |-> "none",
                                        alive |-> game.alive, force |-> force,
                                        overtime_before |-> game.game_overtime,
                                        overtime |-> g1.clock.game_overtime,
                                        pushed |-> FALSE]]} :
                  IF wait_loop_breaks(g2.rom, force, g2.game_overtime)
                  THEN game' = after_wait([g2 EXCEPT
                                  !.alive = IF g2.rom THEN @ ELSE FALSE,
                                  !.wait.exit = IF g2.game_overtime THEN "overtime"
                                                ELSE "forced"])
                  ELSE game' = g2

\* the engine thread ends with its best move
EngineDone ==
    /\ game.pc = "thinking"
    /\ game.alive
    /\ game' = [game EXCEPT !.alive = FALSE]

\* time passes
TickGame ==
    /\ now < MaxTicksG * TickG
    /\ now' = now + TickG
    /\ UNCHANGED game

\* run.py 1565-1603: a game is started from the start position, against the
\* engine or between two humans, with or without a time control
InitGame ==
    /\ CalIdle
    /\ led_call = NoLedCall
    /\ \E human \in BOOLEAN, white \in BOOLEAN, r \in BOOLEAN,
          time_constraint \in {"unlimited", "custom"} :
          game = [NoGame EXCEPT !.pc = "running", !.human_game = human,
                                !.play_white = white, !.rom = r,
                                !.board_state = Placement(<<>>),
                                !.do_user_move = FALSE, !.do_ai_move = FALSE,
                                !.waiting_for_user_move = FALSE,
                                !.clock = clock_start(time_constraint, 1, 0, 0)]
    /\ now = 0
    /\ LedInit
    /\ UsbInit /\ fixed_port = FALSE
    /\ DecInit
    /\ DecLoad(NoFile)
    /\ GmIdle
    /\ PicoIdle

NextGame ==
    \/ GameLoop /\ UNCHANGED <<now, ledVars, usbVars, decVars, gmVars, picoVars, calVars, led_call>>
    \/ WaitLoop /\ UNCHANGED <<now, ledVars, usbVars, decVars, gmVars, picoVars, calVars, led_call>>
    \/ EngineDone /\ UNCHANGED <<now, ledVars, usbVars, decVars, gmVars, picoVars, calVars, led_call>>
    \/ PiecesMoved /\ UNCHANGED <<now, ledVars, usbVars, decVars, gmVars, picoVars, calVars, led_call>>
    \/ TickGame /\ UNCHANGED <<ledVars, usbVars, decVars, gmVars, picoVars, calVars, led_call>>

SpecGame == InitGame /\ [][NextGame]_vars

\* C32: when game_overtime becomes true in a pass of the loop that waits for
\* the engine's move, that pass leaves the loop, whether the engine is still
\* thinking or not and without a force signal, and no engine move is pushed
\* onto the logical board
C32_HardCutoff ==
    /\ [][(game.pc = "thinking" /\ ~game.game_overtime /\ game'.game_overtime)
            => (game'.pc = "running" /\ game'.chessboard = game.chessboard)]_vars
    /\ [](game.wait.overtime =>
            (game.wait.exit = "overtime" /\ ~game.wait.pushed /\ game.pc # "thinking"))

\* C32's case: the deadline is reached in a pass while the engine thread is
\* alive and nothing forces the move
C32_Witness ==
    /\ game.wait.exit = "overtime"
    /\ ~game.wait.overtime_before
    /\ game.wait.alive
    /\ ~game.wait.force
    /\ game.pc = "running"

\* C37: in an engine game the engine is asked for a move, and its move is
\* pushed, only when chessboard.turn != play_white, for every sequence of
\* inferred one- and two-ply user moves and of physical board readings
C37_EngineMovesOnItsTurn ==
    ~game.human_game =>
        /\ game.ask.made => game.ask.turn # game.play_white
        /\ game.ai_push.made => game.ai_push.turn # game.play_white

\* what the code keeps of C37: an iteration that finds the physical board equal
\* to the logical board asks the engine only on the engine's turn
C37_EqualBoardsAskOnTurn ==
    [][(game.pc = "running" /\ game'.pc = "thinking"
            /\ Placement(game.chessboard) = game.board_state)
         => turn(game.chessboard) # game.play_white]_vars

\* the engine was asked on the user's turn
C37_WitnessUsersTurn ==
    /\ ~game.human_game
    /\ game.ask.made
    /\ game.ask.turn = game.play_white

====
